---- MODULE Spec2Model ----
(***************************************************************************)
(* Model of the n8n-mcp-tools workflow generator, validator and template   *)
(* tools.  Every tool invocation is a run of one handler: Invoke picks the *)
(* tool and its input, the handler's steps follow the source statement by  *)
(* statement, Return hands the result back and the server is idle again.   *)
(***************************************************************************)
EXTENDS Integers, Sequences, FiniteSets, TLC

VARIABLES
    pc,            \* position of the running handler ("idle" when none runs)
    tool,          \* name of the handler that runs
    input,         \* its input object
    requirements,  \* generateWorkflow: parsed WorkflowRequirements
    neededNodes,   \* generateWorkflow: node-type list of determineRequiredNodes
    nodes,         \* generateWorkflow: N8nNode[] of createNodeStructure
    connections,   \* generateWorkflow: connections.main of createConnections
    workflow,      \* validateWorkflow tool: workflow fetched from the remote API
    results,       \* validateWorkflow tool: ruleResults
    apiCalls,      \* remote API operations called by the running handler
    exception,     \* Error thrown inside the handler's try block (NoError: none)
    result,        \* ExecuteResult / MCPResponse of the handler
    server,        \* what the remote API answers to the running handler's calls
    heap,          \* the nested objects that parameter values refer to
    instances      \* nodes instantiated by createNode and held by their callers

vars == <<pc, tool, input, requirements, neededNodes, nodes, connections,
          workflow, results, apiCalls, exception, result, server, heap, instances>>

(***************************************************************************)
(* Bounds                                                                  *)
(***************************************************************************)
MaxRequired == 2      \* longest input.requiredNodes list
MaxRules == 2         \* longest input.validationRules list
MaxWfNodes == 3       \* most nodes of a workflow returned by the remote API
MaxBuilt == 2         \* most nodes instantiated while object identity is followed
MaxCalls == 2         \* most remote API calls of one handler that are answered
MaxChannels == 2      \* longest list (channels, platforms, transformations) given to a template

\* JavaScript's undefined, where it ends up in a string-valued field
Undefined == "undefined"
None == "none"

EmptyMap == [k \in {} |-> k]

\* all sequences over S of length at most n
SeqsUpTo(S, n) == UNION {[1..k -> S] : k \in 0..n}

RECURSIVE SumSeq(_)
SumSeq(s) == IF s = <<>> THEN 0 ELSE Head(s) + SumSeq(Tail(s))

\* object spread {...a, ...b}
Spread(a, b) ==
    [k \in (DOMAIN a) \cup (DOMAIN b) |-> IF k \in DOMAIN b THEN b[k] ELSE a[k]]

(***************************************************************************)
(* Node catalog (nodeDefinitions.ts)                                       *)
(***************************************************************************)
START == "n8n-nodes-base.start"
MANUAL == "n8n-nodes-base.manualTrigger"
SCHEDULE == "n8n-nodes-base.scheduleTrigger"
HTTP == "n8n-nodes-base.httpRequest"
SETNODE == "n8n-nodes-base.set"
FUNCTION == "n8n-nodes-base.function"
IFNODE == "n8n-nodes-base.if"
MERGE == "n8n-nodes-base.merge"
EMAIL == "n8n-nodes-base.email"
SHEETS == "n8n-nodes-base.googleSheets"
TWITTER == "n8n-nodes-base.twitter"
REDDIT == "n8n-nodes-base.reddit"
SLACK == "n8n-nodes-base.slack"

Def(type, version, name, params, category, ins, outs) ==
    [type |-> type, typeVersion |-> version, defaultName |-> name,
     defaultParameters |-> params, category |-> category,
     inputs |-> ins, outputs |-> outs]

nodeDefinitions ==
    (START :> Def(START, "1", "Start", EmptyMap, "trigger", <<>>, <<"main">>)) @@
    (MANUAL :> Def(MANUAL, "1", "Manual Trigger", EmptyMap, "trigger", <<>>, <<"main">>)) @@
    (SCHEDULE :> Def(SCHEDULE, "1", "Schedule Trigger",
        [interval |-> "0 0 * * *"], "trigger", <<>>, <<"main">>)) @@
    (HTTP :> Def(HTTP, "1", "HTTP Request",
        [url |-> "", method |-> "GET", authentication |-> "none", options |-> "{}"],
        "action", <<"main">>, <<"main">>)) @@
    (SETNODE :> Def(SETNODE, "1", "Set",
        [values |-> "{string:[]}", options |-> "{}"], "data", <<"main">>, <<"main">>)) @@
    (FUNCTION :> Def(FUNCTION, "1", "Function",
        [functionCode |-> "return items;"], "helper", <<"main">>, <<"main">>)) @@
    (IFNODE :> Def(IFNODE, "1", "IF",
        [conditions |-> "{string:[equal]}"], "flow", <<"main">>, <<"main", "main">>)) @@
    (MERGE :> Def(MERGE, "2", "Merge",
        [mode |-> "append"], "flow", <<"main", "main">>, <<"main">>)) @@
    (EMAIL :> Def(EMAIL, "1", "Email",
        [fromEmail |-> "", toEmail |-> "", subject |-> "", text |-> "", options |-> "{}"],
        "communication", <<"main">>, <<"main">>)) @@
    (SHEETS :> Def(SHEETS, "1", "Google Sheets",
        [operation |-> "read", sheetId |-> "", range |-> "", options |-> "{}"],
        "services", <<"main">>, <<"main">>)) @@
    (TWITTER :> Def(TWITTER, "1", "Twitter",
        [operation |-> "search", searchText |-> "", options |-> "{}"],
        "services", <<"main">>, <<"main">>)) @@
    (REDDIT :> Def(REDDIT, "1", "Reddit",
        [operation |-> "search", subreddit |-> "", options |-> "{}"],
        "services", <<"main">>, <<"main">>)) @@
    (SLACK :> Def(SLACK, "1", "Slack",
        [operation |-> "sendMessage", channel |-> "", text |-> "", options |-> "{}"],
        "communication", <<"main">>, <<"main">>))

CatalogTypes == DOMAIN nodeDefinitions

\* nodeDefinitions and the validator's rules table are plain object literals:
\* a lookup by one of these keys finds the property inherited from
\* Object.prototype, a function, and not undefined.
InheritedKeys == {"constructor"}

\* what the fields read by createNode are on such an inherited function
InheritedProperty ==
    [type |-> Undefined, typeVersion |-> Undefined, defaultName |-> Undefined,
     defaultParameters |-> EmptyMap, category |-> Undefined,
     inputs |-> <<>>, outputs |-> <<>>]

\* nodeDefinitions[type] is truthy
HasDefinition(type) == type \in CatalogTypes \cup InheritedKeys

\* nodeDefinitions[type], for a type with HasDefinition
Definition(type) ==
    IF type \in CatalogTypes THEN nodeDefinitions[type] ELSE InheritedProperty

\* type.replace('n8n-nodes-base.', '')
CleanType(type) ==
    CASE type = START -> "start"
      [] type = MANUAL -> "manualTrigger"
      [] type = SCHEDULE -> "scheduleTrigger"
      [] type = HTTP -> "httpRequest"
      [] type = SETNODE -> "set"
      [] type = FUNCTION -> "function"
      [] type = IFNODE -> "if"
      [] type = MERGE -> "merge"
      [] type = EMAIL -> "email"
      [] type = SHEETS -> "googleSheets"
      [] type = TWITTER -> "twitter"
      [] type = REDDIT -> "reddit"
      [] type = SLACK -> "slack"
      [] OTHER -> type

\* `${cleanType}_${index}`
createNodeId(type, index) == <<CleanType(type), "_", index>>

\* a createNode whose spread puts the defaults last: { ...custom, ...defaults }
createNodeDefaultsWin(definition, id, position, customParameters, customName) ==
    [id |-> id,
     name |-> IF customName # "" THEN customName ELSE definition.defaultName,
     type |-> definition.type,
     typeVersion |-> definition.typeVersion,
     position |-> position,
     parameters |-> Spread(customParameters, definition.defaultParameters)]

\* customName "" stands for an absent customName (customName || defaultName)
createNode(definition, id, position, customParameters, customName) ==
    [id |-> id,
     name |-> IF customName # "" THEN customName ELSE definition.defaultName,
     type |-> definition.type,
     typeVersion |-> definition.typeVersion,
     position |-> position,
     parameters |-> Spread(definition.defaultParameters, customParameters)]

(***************************************************************************)
(* Object identity of parameter values.  A parameter value is a primitive  *)
(* or a reference to a nested object; heap[r] is the content of the nested *)
(* object r.  The catalog is a module-level constant object, so the nested *)
(* objects of its defaultParameters live as long as the process: they are  *)
(* the first entries of the heap.                                          *)
(***************************************************************************)
Prim(v) == [prim |-> v, ref |-> 0]
Ref(r) == [prim |-> "", ref |-> r]

\* the defaultParameters values of the catalog that are object literals
CatalogObjects ==
    <<[type |-> HTTP, key |-> "options", content |-> EmptyMap],
      [type |-> SETNODE, key |-> "values", content |-> [string |-> "[]"]],
      [type |-> SETNODE, key |-> "options", content |-> EmptyMap]>>

CatalogRefs == 1..Len(CatalogObjects)

\* the heap when the module has been loaded
CatalogHeap == [r \in CatalogRefs |-> CatalogObjects[r].content]

\* the types whose instantiation is followed object by object
ObjectTypes == {START, HTTP, SETNODE}

CatalogRef(type, key) ==
    CHOOSE r \in CatalogRefs : CatalogObjects[r].type = type /\ CatalogObjects[r].key = key

IsCatalogObject(type, key) ==
    \E r \in CatalogRefs : CatalogObjects[r].type = type /\ CatalogObjects[r].key = key

\* nodeDefinitions[type] with the values of defaultParameters as primitives and
\* references
objectDefinition(type) ==
    LET definition == nodeDefinitions[type]
        defaults == definition.defaultParameters
    IN  [definition EXCEPT !.defaultParameters =
            [k \in DOMAIN defaults |->
                IF IsCatalogObject(type, k) THEN Ref(CatalogRef(type, k))
                ELSE Prim(defaults[k])]]

\* the keys a caller's customParameters may set: "values" is a nested object of the
\* Set node's defaults, "url" a primitive of the HTTP Request node's defaults, and
\* each is a key the defaults of the other types do not have
OverrideKeys == {"values", "url"}
\* how a caller sets a key: not at all, to a primitive, to an object literal
OverrideShapes == [OverrideKeys -> {"absent", "primitive", "object"}]

\* the object literals of a caller's customParameters, allocated at the call
OverrideObjects(shape) ==
    LET RECURSIVE objects(_)
        objects(keys) ==
            IF keys = {} THEN <<>>
            ELSE LET k == CHOOSE x \in keys : TRUE
                 IN  IF shape[k] = "object"
                     THEN <<k>> \o objects(keys \ {k})
                     ELSE objects(keys \ {k})
    IN  objects(OverrideKeys)

IndexOf(seq, x) == CHOOSE i \in 1..Len(seq) : seq[i] = x

\* customParameters of the given shape whose object literals are allocated after
\* the first `allocated` objects of the heap
customParametersOf(shape, allocated) ==
    LET present == {k \in OverrideKeys : shape[k] # "absent"}
    IN  [k \in present |->
            IF shape[k] = "object"
            THEN Ref(allocated + IndexOf(OverrideObjects(shape), k))
            ELSE Prim("custom")]

\* the heap after the caller's object literals have been allocated
Allocate(h, shape) ==
    h \o [i \in 1..Len(OverrideObjects(shape)) |-> [custom |-> "1"]]

\* node.parameters[key][field] = value
SetNested(h, r, field, value) ==
    [h EXCEPT ![r] = [k \in DOMAIN @ \cup {field} |-> IF k = field THEN value ELSE @[k]]]

(***************************************************************************)
(* Connections: connections.main maps a source node name to                *)
(* {main: [target entries]}.  An object keeps its keys in insertion order, *)
(* so the map is the sequence of its entries [source, main].               *)
(***************************************************************************)
NoConnections == <<>>

\* connections.main[src] exists
HasSource(conns, src) == \E i \in 1..Len(conns) : conns[i].source = src

\* connections.main[src].main ([] when the key is absent)
Targets(conns, src) ==
    IF HasSource(conns, src)
    THEN conns[CHOOSE i \in 1..Len(conns) : conns[i].source = src].main
    ELSE <<>>

\* if (!connections.main[src]) connections.main[src] = { main: [] };
\* connections.main[src].main.push(conn)
PushConnection(conns, src, conn) ==
    IF HasSource(conns, src)
    THEN [i \in 1..Len(conns) |->
             IF conns[i].source = src
             THEN [conns[i] EXCEPT !.main = Append(@, conn)]
             ELSE conns[i]]
    ELSE Append(conns, [source |-> src, main |-> <<conn>>])

\* templates.ts createConnections(sourceNodeName, targetNodeName)
templateConnection(sourceNodeName, targetNodeName) ==
    [node |-> targetNodeName, type |-> "main", index |-> 0]

\* total number of target entries of a connections map
CountTargets(conns) == SumSeq([i \in 1..Len(conns) |-> Len(conns[i].main)])

\* all target entries of a connections map, in iteration order
RECURSIVE AllTargets(_)
AllTargets(conns) ==
    IF conns = <<>> THEN <<>> ELSE Head(conns).main \o AllTargets(Tail(conns))

(***************************************************************************)
(* Workflow templates (templates.ts).  A template's parameters object is a *)
(* map with optional keys; a missing key takes the destructuring default.  *)
(***************************************************************************)
Param(parameters, key, default) ==
    IF key \in DOMAIN parameters THEN parameters[key] ELSE default

TemplateSettings == [saveExecutionProgress |-> TRUE, saveManualExecutions |-> TRUE]

TemplateWorkflow(name, description, ns, conns) ==
    [threw |-> FALSE, name |-> name, description |-> description, nodes |-> ns,
     connections |-> conns, active |-> FALSE, settings |-> TemplateSettings]

\* a TypeError raised inside a template's generateWorkflow
TemplateThrew ==
    [threw |-> TRUE, name |-> "", description |-> "", nodes |-> <<>>,
     connections |-> NoConnections, active |-> FALSE, settings |-> TemplateSettings]

apiRequestTemplate(params) ==
    LET parameters == params.parameters
        apiUrl == Param(parameters, "apiUrl", "https://api.example.com/data")
        method == Param(parameters, "method", "GET")
        startNode == createNode(nodeDefinitions[START], createNodeId("start", 1),
                                <<250, 300>>, EmptyMap, "")
        httpNode == createNode(nodeDefinitions[HTTP], createNodeId("httpRequest", 1),
                               <<450, 300>>, [url |-> apiUrl, method |-> method],
                               "API Request")
        setNode == createNode(nodeDefinitions[SETNODE], createNodeId("set", 1),
                              <<650, 300>>, [values |-> "{string:[processedData]}"],
                              "Process Data")
        c1 == PushConnection(NoConnections, startNode.name,
                             templateConnection(startNode.name, httpNode.name))
        c2 == PushConnection(c1, httpNode.name,
                             templateConnection(httpNode.name, setNode.name))
    IN  TemplateWorkflow(params.name,
            IF params.description # "" THEN params.description
            ELSE "Workflow to fetch and process API data",
            <<startNode, httpNode, setNode>>, c2)

\* one pass of a template's forEach: acc holds the loop's captured variables
AddChained(acc, node) ==
    [nodes |-> Append(acc.nodes, node),
     connections |-> PushConnection(acc.connections, acc.lastNodeName,
                        templateConnection(acc.lastNodeName, node.name)),
     lastNodeName |-> node.name,
     nodePosition |-> <<acc.nodePosition[1] + 200, acc.nodePosition[2]>>]

RECURSIVE socialMediaPlatforms(_, _, _)
socialMediaPlatforms(platforms, index, acc) ==
    IF index > Len(platforms) THEN acc
    ELSE LET platform == platforms[index]
             next ==
               IF platform = "twitter"
               THEN AddChained(acc, createNode(nodeDefinitions[TWITTER],
                       createNodeId("twitter", index), acc.nodePosition,
                       [operation |-> "search", searchText |-> "keywords",
                        options |-> "{limit:10}"], "Twitter Search"))
               ELSE IF platform = "reddit"
               THEN AddChained(acc, createNode(nodeDefinitions[REDDIT],
                       createNodeId("reddit", index), acc.nodePosition,
                       [operation |-> "search", subreddit |-> "all",
                        options |-> "{limit:10}"], "Reddit Search"))
               ELSE acc
         IN  socialMediaPlatforms(platforms, index + 1, next)

socialMediaTemplate(params) ==
    LET parameters == params.parameters
        platforms == Param(parameters, "platforms", <<"twitter">>)
        schedule == Param(parameters, "schedule", "0 */2 * * *")
        scheduleNode == createNode(nodeDefinitions[SCHEDULE],
                            createNodeId("scheduleTrigger", 1), <<250, 300>>,
                            [interval |-> schedule], "")
        acc0 == [nodes |-> <<scheduleNode>>, connections |-> NoConnections,
                 lastNodeName |-> scheduleNode.name, nodePosition |-> <<450, 300>>]
        acc1 == socialMediaPlatforms(platforms, 1, acc0)
        functionNode == createNode(nodeDefinitions[FUNCTION], createNodeId("function", 1),
                            acc1.nodePosition, [functionCode |-> "deduplicate"],
                            "Process Social Data")
        acc2 == AddChained(acc1, functionNode)
    IN  TemplateWorkflow(params.name,
            IF params.description # "" THEN params.description
            ELSE "Workflow to monitor social media for keywords",
            acc2.nodes, acc2.connections)

RECURSIVE dataProcessingTransformations(_, _, _)
dataProcessingTransformations(transformations, index, acc) ==
    IF index > Len(transformations) THEN acc
    ELSE LET transformation == transformations[index]
             next ==
               IF transformation = "filter"
               THEN AddChained(acc, createNode(nodeDefinitions[FUNCTION],
                       createNodeId("function", index), acc.nodePosition,
                       [functionCode |-> "filter"], "Filter Data"))
               ELSE IF transformation = "format"
               THEN AddChained(acc, createNode(nodeDefinitions[SETNODE],
                       createNodeId("set", index), acc.nodePosition,
                       [values |-> "{string:[formattedData]}"], "Format Data"))
               ELSE IF transformation = "merge"
               THEN AddChained(acc, createNode(nodeDefinitions[FUNCTION],
                       createNodeId("function", index), acc.nodePosition,
                       [functionCode |-> "merge"], "Transform Data"))
               ELSE acc
         IN  dataProcessingTransformations(transformations, index + 1, next)

dataProcessingTemplate(params) ==
    LET parameters == params.parameters
        sourceType == Param(parameters, "sourceType", "http")
        transformations == Param(parameters, "transformations", <<"filter", "format">>)
        startNode == createNode(nodeDefinitions[START], createNodeId("start", 1),
                                <<250, 300>>, EmptyMap, "")
        acc0 == [nodes |-> <<startNode>>, connections |-> NoConnections,
                 lastNodeName |-> startNode.name, nodePosition |-> <<450, 300>>]
        acc1 ==
            IF sourceType = "http"
            THEN AddChained(acc0, createNode(nodeDefinitions[HTTP],
                    createNodeId("httpRequest", 1), acc0.nodePosition,
                    [url |-> "https://api.example.com/data", method |-> "GET"],
                    "Data Source"))
            ELSE IF sourceType = "googleSheets"
            THEN AddChained(acc0, createNode(nodeDefinitions[SHEETS],
                    createNodeId("googleSheets", 1), acc0.nodePosition,
                    [operation |-> "read", sheetId |-> "", range |-> "A:Z"],
                    "Google Sheets Source"))
            ELSE acc0
        acc2 == dataProcessingTransformations(transformations, 1, acc1)
    IN  TemplateWorkflow(params.name,
            IF params.description # "" THEN params.description
            ELSE "Data processing workflow with multiple transformations",
            acc2.nodes, acc2.connections)

\* notification channels fan out of the Set node: lastNodeName is not advanced
RECURSIVE notificationChannelNodes(_, _, _)
notificationChannelNodes(channels, index, acc) ==
    IF index > Len(channels) THEN acc
    ELSE LET channel == channels[index]
             position == <<acc.nodePosition[1], acc.nodePosition[2] + ((index - 1) * 150)>>
             fanOut(node) ==
                 [acc EXCEPT !.nodes = Append(@, node),
                             !.connections = PushConnection(@, acc.lastNodeName,
                                 templateConnection(acc.lastNodeName, node.name))]
             next ==
               IF channel = "email"
               THEN fanOut(createNode(nodeDefinitions[EMAIL], createNodeId("email", index),
                       position,
                       [fromEmail |-> "notifications@example.com",
                        toEmail |-> "user@example.com",
                        subject |-> "={{ $json.notificationTitle }}",
                        text |-> "={{ $json.notificationBody }}"], "Send Email"))
               ELSE IF channel = "slack"
               THEN fanOut(createNode(nodeDefinitions[SLACK], createNodeId("slack", index),
                       position,
                       [operation |-> "sendMessage", channel |-> "general",
                        text |-> "={{ $json.notificationTitle }}"], "Send Slack Message"))
               ELSE acc
         IN  notificationChannelNodes(channels, index + 1, next)

notificationTemplate(params) ==
    LET parameters == params.parameters
        trigger == Param(parameters, "trigger", "schedule")
        triggerConfig == Param(parameters, "triggerConfig", "0 9 * * *")
        notificationChannels == Param(parameters, "notificationChannels", <<"email">>)
        triggerNode ==
            IF trigger = "schedule"
            THEN createNode(nodeDefinitions[SCHEDULE], createNodeId("scheduleTrigger", 1),
                    <<250, 300>>, [interval |-> triggerConfig], "Schedule Trigger")
            ELSE createNode(nodeDefinitions[MANUAL], createNodeId("manualTrigger", 1),
                    <<250, 300>>, EmptyMap, "Manual Trigger")
        setNode == createNode(nodeDefinitions[SETNODE], createNodeId("set", 1),
                    <<450, 300>>, [values |-> "{string:[notificationTitle]}"],
                    "Prepare Notification")
        acc0 == [nodes |-> <<triggerNode>>, connections |-> NoConnections,
                 lastNodeName |-> triggerNode.name, nodePosition |-> <<450, 300>>]
        acc1 == AddChained(acc0, setNode)
        acc2 == notificationChannelNodes(notificationChannels, 1, acc1)
    IN  \* let lastNodeName = triggerNode.name: a TypeError when no trigger node
        \* was created
        IF trigger \notin {"schedule", "manual"} THEN TemplateThrew
        ELSE TemplateWorkflow(params.name,
                IF params.description # "" THEN params.description
                ELSE "Workflow to send notifications",
                acc2.nodes, acc2.connections)

TemplateIds == {"api-request", "social-media-monitoring", "data-processing", "notification"}

\* workflowTemplates[templateId].generateWorkflow(params)
workflowTemplates(templateId, params) ==
    CASE templateId = "api-request" -> apiRequestTemplate(params)
      [] templateId = "social-media-monitoring" -> socialMediaTemplate(params)
      [] templateId = "data-processing" -> dataProcessingTemplate(params)
      [] templateId = "notification" -> notificationTemplate(params)

(***************************************************************************)
(* Workflow generator (workflow-generator/index.ts)                        *)
(*                                                                         *)
(* A description is modelled by the words it is made of, drawn from        *)
(* Vocabulary, and by what the name pattern /workflow (to|that|which)      *)
(* ([\w\s]+)/ captures in it: nothing ("none"), only white space ("blank") *)
(* or a text ("text").  An empty description has empty = TRUE.             *)
(***************************************************************************)
Vocabulary == {"api", "process", "email", "slack", "schedule", "condition",
               "twitter", "notification", "google sheets"}

\* the keywords of the source that occur inside a word of the vocabulary
KeywordsIn(word) ==
    CASE word = "notification" -> {"notification", "if"}
      [] word = "google sheets" -> {"google sheets", "google sheet"}
      [] OTHER -> {word}

\* description.toLowerCase().includes(keyword)
Includes(description, keyword) ==
    \E word \in description.words : keyword \in KeywordsIn(word)

IncludesAny(description, keywords) ==
    \E keyword \in keywords : Includes(description, keyword)

parseWorkflowRequirements(description) ==
    LET name == CASE description.nameMatch = "none" -> "Generated Workflow"
                  [] description.nameMatch = "blank" -> ""
                  [] OTHER -> "Custom name"
        operations ==
            (IF IncludesAny(description, {"fetch", "get", "retrieve", "download", "api"})
             THEN {"fetch"} ELSE {}) \cup
            (IF IncludesAny(description, {"send", "email", "message", "notification"})
             THEN {"notify"} ELSE {}) \cup
            (IF IncludesAny(description, {"filter", "process", "transform", "clean"})
             THEN {"process"} ELSE {}) \cup
            (IF IncludesAny(description, {"schedule", "recurring", "every day", "weekly", "monthly"})
             THEN {"schedule"} ELSE {}) \cup
            (IF IncludesAny(description, {"if", "condition", "when", "case"})
             THEN {"condition"} ELSE {}) \cup
            (IF IncludesAny(description, {"store", "save", "database", "google sheets"})
             THEN {"store"} ELSE {})
        scheduling ==
            IF "schedule" \notin operations THEN Undefined
            ELSE IF Includes(description, "every hour") THEN "hourly"
            ELSE IF Includes(description, "every day") THEN "daily"
            ELSE IF Includes(description, "weekly") THEN "weekly"
            ELSE IF Includes(description, "monthly") THEN "monthly"
            ELSE "daily"
        conditionalLogic == "condition" \in operations
        templateId ==
            IF Includes(description, "api") /\ "fetch" \in operations
            THEN "api-request"
            ELSE IF \/ Includes(description, "social media")
                    \/ Includes(description, "twitter")
                    \/ Includes(description, "reddit")
            THEN "social-media-monitoring"
            ELSE IF "notify" \in operations THEN "notification"
            ELSE IF \/ "process" \in operations
                    \/ ("fetch" \in operations /\ "store" \in operations)
            THEN "data-processing"
            ELSE Undefined
        complexity ==
            IF \/ Cardinality(operations) >= 4
               \/ (conditionalLogic /\ Cardinality(operations) >= 3)
            THEN "complex"
            ELSE IF Cardinality(operations) >= 2 \/ conditionalLogic THEN "medium"
            ELSE "simple"
    IN  [name |-> name, description |-> description, operations |-> operations,
         conditionalLogic |-> conditionalLogic, scheduling |-> scheduling,
         templateId |-> templateId, complexity |-> complexity]

\* explicitNodes.forEach(node => nodes.push(node)), without the includes test
addExplicitNodesRepeated(types, explicitNodes) == types \o explicitNodes

\* explicitNodes.forEach(node => { if (!nodes.includes(node)) nodes.push(node) })
RECURSIVE addExplicitNodes(_, _)
addExplicitNodes(types, explicitNodes) ==
    IF explicitNodes = <<>> THEN types
    ELSE LET node == Head(explicitNodes)
         IN  addExplicitNodes(
                IF \E i \in 1..Len(types) : types[i] = node THEN types
                ELSE Append(types, node),
                Tail(explicitNodes))

determineRequiredNodes(reqs, explicitNodes) ==
    LET ops == reqs.operations
        implied ==
            (IF "schedule" \in ops THEN <<SCHEDULE>> ELSE <<START>>) \o
            (IF "fetch" \in ops THEN <<HTTP>> ELSE <<>>) \o
            (IF "process" \in ops THEN <<FUNCTION, SETNODE>> ELSE <<>>) \o
            (IF "notify" \in ops /\ Includes(reqs.description, "email")
             THEN <<EMAIL>> ELSE <<>>) \o
            (IF "notify" \in ops /\ Includes(reqs.description, "slack")
             THEN <<SLACK>> ELSE <<>>) \o
            (IF reqs.conditionalLogic THEN <<IFNODE>> ELSE <<>>) \o
            (IF "store" \in ops /\ Includes(reqs.description, "google sheet")
             THEN <<SHEETS>> ELSE <<>>)
    IN  addExplicitNodes(implied, explicitNodes)

cronExpression(scheduling) ==
    CASE scheduling = "hourly" -> "0 * * * *"
      [] scheduling = "daily" -> "0 9 * * *"
      [] scheduling = "weekly" -> "0 9 * * 1"
      [] scheduling = "monthly" -> "0 9 1 * *"
      [] OTHER -> "0 9 * * *"

\* the templateParams that createNodeStructure derives from the requirements
templateParams(reqs) ==
    LET d == reqs.description
        parameters ==
            CASE reqs.templateId = "social-media-monitoring" ->
                    [platforms |->
                        (IF Includes(d, "twitter") THEN <<"twitter">> ELSE <<>>) \o
                        (IF Includes(d, "reddit") THEN <<"reddit">> ELSE <<>>),
                     keywords |-> "keywords"]
              [] reqs.templateId = "api-request" ->
                    [apiUrl |-> "https://api.example.com/data",
                     method |-> IF Includes(d, "post") THEN "POST" ELSE "GET"]
              [] reqs.templateId = "notification" ->
                    [trigger |-> IF "schedule" \in reqs.operations
                                 THEN "schedule" ELSE "manual",
                     notificationChannels |->
                        (IF Includes(d, "email") THEN <<"email">> ELSE <<>>) \o
                        (IF Includes(d, "slack") THEN <<"slack">> ELSE <<>>)] @@
                    (IF reqs.scheduling # Undefined
                     THEN [triggerConfig |-> cronExpression(reqs.scheduling)]
                     ELSE EmptyMap)
              [] OTHER -> EmptyMap
    IN  [name |-> reqs.name, description |-> "described", parameters |-> parameters]

\* the body of nodeTypes.forEach for a type that has a definition; index counts
\* from 1, as createNodeId(nodeType, index + 1) does
manualNode(nodeType, index, xPosition, reqs) ==
    LET nodeId == createNodeId(nodeType, index)
        position == <<xPosition, 300>>
        custom ==
            IF nodeType = SCHEDULE /\ reqs.scheduling # Undefined
            THEN [parameters |-> [interval |-> cronExpression(reqs.scheduling)],
                  name |-> "Schedule Trigger"]
            ELSE IF nodeType = HTTP
            THEN [parameters |->
                    [url |-> "https://api.example.com/data",
                     method |-> IF Includes(reqs.description, "post")
                                THEN "POST" ELSE "GET"],
                  name |-> "API Request"]
            ELSE IF nodeType = FUNCTION
            THEN [parameters |-> [functionCode |-> "process"], name |-> "Process Data"]
            ELSE [parameters |-> EmptyMap, name |-> ""]
    IN  createNode(Definition(nodeType), nodeId, position, custom.parameters, custom.name)

\* the manual branch of createNodeStructure:
\* nodeTypes.forEach((nodeType, index) => { if (!definition) return; ... })
RECURSIVE createNodesManually(_, _, _, _, _)
createNodesManually(nodeTypes, index, xPosition, reqs, acc) ==
    IF index > Len(nodeTypes) THEN acc
    ELSE IF ~HasDefinition(nodeTypes[index])
    THEN createNodesManually(nodeTypes, index + 1, xPosition, reqs, acc)
    ELSE createNodesManually(nodeTypes, index + 1, xPosition + 200, reqs,
            Append(acc, manualNode(nodeTypes[index], index, xPosition, reqs)))

\* returns [threw, nodes]: threw when the template's generateWorkflow raised
createNodeStructure(nodeTypes, reqs) ==
    IF reqs.templateId # Undefined /\ reqs.templateId \in TemplateIds
    THEN LET wf == workflowTemplates(reqs.templateId, templateParams(reqs))
         IN  [threw |-> wf.threw, nodes |-> wf.nodes]
    ELSE [threw |-> FALSE, nodes |-> createNodesManually(nodeTypes, 1, 100, reqs, <<>>)]

\* nodeDefinitions[node.type]?.outputs?.length is truthy
HasOutputs(node) ==
    HasDefinition(node.type) /\ Len(Definition(node.type).outputs) > 0

Connection(targetName, index) == [node |-> targetName, type |-> "main", index |-> index]

\* an IF branch that connects nothing when fewer than two nodes remain
ifNodeConnectionsBothOrNone(currentNode, remainingNodes, conns) ==
    IF Len(remainingNodes) >= 2
    THEN [connections |->
            PushConnection(
              PushConnection(conns, currentNode.name, Connection(remainingNodes[1].name, 0)),
              currentNode.name, Connection(remainingNodes[2].name, 1)),
          skip |-> 1]
    ELSE [connections |-> conns, skip |-> 0]

\* the branch of createConnections for an IF node: the connections after it,
\* and how many extra nodes the loop skips (i++)
ifNodeConnections(currentNode, remainingNodes, conns) ==
    IF Len(remainingNodes) >= 2
    THEN [connections |->
            PushConnection(
              PushConnection(conns, currentNode.name, Connection(remainingNodes[1].name, 0)),
              currentNode.name, Connection(remainingNodes[2].name, 1)),
          skip |-> 1]
    ELSE [connections |->
            PushConnection(conns, currentNode.name, Connection(remainingNodes[1].name, 0)),
          skip |-> 0]

\* the loop of createConnections, i counting from 1: for (i; i < nodes.length; i++)
RECURSIVE createConnectionsFrom(_, _, _)
createConnectionsFrom(ns, i, conns) ==
    IF i >= Len(ns) THEN conns
    ELSE LET currentNode == ns[i]
             nextNode == ns[i + 1]
             remainingNodes == SubSeq(ns, i + 1, Len(ns))
             branch == ifNodeConnections(currentNode, remainingNodes, conns)
         IN  IF ~HasOutputs(currentNode)
             THEN createConnectionsFrom(ns, i + 1, conns)
             ELSE IF currentNode.type = IFNODE
             THEN createConnectionsFrom(ns, i + 1 + branch.skip, branch.connections)
             ELSE createConnectionsFrom(ns, i + 1,
                      PushConnection(conns, currentNode.name, Connection(nextNode.name, 0)))

createConnections(ns) == createConnectionsFrom(ns, 1, NoConnections)

\* node.type.includes('Trigger'), over the node types of the model
TypeIncludesTrigger(type) == type \in {MANUAL, SCHEDULE, "custom.webhookTrigger"}

\* node.type.includes('Trigger') || node.type === 'n8n-nodes-base.start'
IsTriggerType(type) == TypeIncludesTrigger(type) \/ type = START

NodeNames(ns) == {ns[i].name : i \in 1..Len(ns)}

\* the generator's validateWorkflow(workflow): the Error it throws, NoError
\* when it returns.  some() stops at the first trigger node; reading
\* node.type.includes on a node without type before that is a TypeError.
NoError == [message |-> "", arg |-> ""]

RECURSIVE triggerScan(_)
triggerScan(ns) ==
    IF ns = <<>> THEN "none"
    ELSE IF Head(ns).type = Undefined THEN "TypeError"
    ELSE IF IsTriggerType(Head(ns).type) THEN "found"
    ELSE triggerScan(Tail(ns))

\* a connection check that looks at the first target entry only
firstDanglingHeadOnly(targets, names) ==
    IF targets = <<>> THEN NoError
    ELSE IF Head(targets).node \notin names
    THEN [message |-> "Connection points to non-existent node: ",
          arg |-> Head(targets).node]
    ELSE NoError

\* for (... of Object.entries(workflow.connections.main)) ...: the first target
\* entry that names no node
RECURSIVE firstDangling(_, _)
firstDangling(targets, names) ==
    IF targets = <<>> THEN NoError
    ELSE IF Head(targets).node \notin names
    THEN [message |-> "Connection points to non-existent node: ",
          arg |-> Head(targets).node]
    ELSE firstDangling(Tail(targets), names)

\* a validateWorkflow that does not look at the name
validateWorkflowNameUnchecked(wf) ==
    IF Len(wf.nodes) = 0
    THEN [message |-> "Workflow must have at least one node", arg |-> ""]
    ELSE IF triggerScan(wf.nodes) = "TypeError"
    THEN [message |-> "TypeError", arg |-> "includes"]
    ELSE IF triggerScan(wf.nodes) = "none"
    THEN [message |-> "Workflow must have a trigger node", arg |-> ""]
    ELSE firstDangling(AllTargets(wf.connections), NodeNames(wf.nodes))

validateWorkflow(wf) ==
    IF wf.name = "" THEN [message |-> "Workflow must have a name", arg |-> ""]
    ELSE IF Len(wf.nodes) = 0
    THEN [message |-> "Workflow must have at least one node", arg |-> ""]
    ELSE IF triggerScan(wf.nodes) = "TypeError"
    THEN [message |-> "TypeError", arg |-> "includes"]
    ELSE IF triggerScan(wf.nodes) = "none"
    THEN [message |-> "Workflow must have a trigger node", arg |-> ""]
    ELSE firstDangling(AllTargets(wf.connections), NodeNames(wf.nodes))

\* generateExplanations reads node.type.replace of every node
generateExplanationsThrows(ns) == \E i \in 1..Len(ns) : ns[i].type = Undefined

(***************************************************************************)
(* validateWorkflow tool (common-infrastructure/index.ts)                  *)
(***************************************************************************)
Issue(text, arg) == [text |-> text, arg |-> arg]

\* a trigger rule that asks every node, not some node, to be a trigger
ruleTriggerEvery(wf) ==
    LET hasTrigger == \A i \in 1..Len(wf.nodes) : IsTriggerType(wf.nodes[i].type)
    IN  [pass |-> hasTrigger,
         issues |-> IF hasTrigger THEN <<>>
                    ELSE <<Issue("Workflow must have at least one trigger node", "")>>]

\* rules['trigger']
ruleTrigger(wf) ==
    LET hasTrigger == \E i \in 1..Len(wf.nodes) : IsTriggerType(wf.nodes[i].type)
    IN  [pass |-> hasTrigger,
         issues |-> IF hasTrigger THEN <<>>
                    ELSE <<Issue("Workflow must have at least one trigger node", "")>>]

\* rules['errorHandling']
ruleErrorHandling(wf) ==
    LET hasErrorHandling ==
            \/ wf.settings.errorWorkflow # Undefined
            \/ \E i \in 1..Len(wf.nodes) : wf.nodes[i].continueOnFail
    IN  [pass |-> hasErrorHandling,
         issues |-> IF hasErrorHandling THEN <<>>
                    ELSE <<Issue("Workflow lacks error handling mechanisms", "")>>]

\* node.name.includes('Node'), over the node names of the model
NameIncludesNode(name) == name \in {"Node 1"}

\* wf.name.length < 3, over the workflow names of the model
NameTooShort(name) == name \in {"", "ab"}

\* a duplicate check that reports a name once, however often it is repeated
RECURSIVE namingNodesOncePerName(_, _, _)
namingNodesOncePerName(ns, uniqueNodeNames, issues) ==
    IF ns = <<>> THEN issues
    ELSE LET node == Head(ns)
             reported == \E k \in 1..Len(issues) :
                            issues[k] = Issue("Duplicate node name: ", node.name)
             dup == IF node.name \in uniqueNodeNames /\ ~reported
                    THEN <<Issue("Duplicate node name: ", node.name)>> ELSE <<>>
             generic == IF node.name = node.type \/ NameIncludesNode(node.name)
                        THEN <<Issue("Generic node name detected: ", node.name)>> ELSE <<>>
         IN  namingNodesOncePerName(Tail(ns), uniqueNodeNames \cup {node.name},
                                    issues \o dup \o generic)

\* wf.nodes.forEach of rules['naming']
RECURSIVE namingNodes(_, _, _)
namingNodes(ns, uniqueNodeNames, issues) ==
    IF ns = <<>> THEN issues
    ELSE LET node == Head(ns)
             dup == IF node.name \in uniqueNodeNames
                    THEN <<Issue("Duplicate node name: ", node.name)>> ELSE <<>>
             generic == IF node.name = node.type \/ NameIncludesNode(node.name)
                        THEN <<Issue("Generic node name detected: ", node.name)>> ELSE <<>>
         IN  namingNodes(Tail(ns), uniqueNodeNames \cup {node.name},
                         issues \o dup \o generic)

\* rules['naming']
ruleNaming(wf) ==
    LET first == IF NameTooShort(wf.name)
                 THEN <<Issue("Workflow name is too short or missing", "")>> ELSE <<>>
        issues == namingNodes(wf.nodes, {}, first)
    IN  [pass |-> issues = <<>>, issues |-> issues]

\* rules['credentials']
ruleCredentials(wf) ==
    LET issues == IF \E i \in 1..Len(wf.nodes) : wf.nodes[i].credentials
                  THEN <<Issue("Workflow uses credentials that should be verified", "")>>
                  ELSE <<>>
    IN  [pass |-> issues = <<>>, issues |-> issues]

\* the keys of the rules table, in the order of the object literal
RuleOrder == <<"trigger", "errorHandling", "naming", "credentials">>
RuleTable == {"trigger", "errorHandling", "naming", "credentials"}

\* rules[rule] is truthy: a rule of the table, or a property every object inherits
HasRule(rule) == rule \in RuleTable \cup InheritedKeys

\* rules[rule](workflow).  An inherited function is no rule: what it returns has
\* neither pass nor issues.
applyRule(rule, wf) ==
    LET r == CASE rule = "trigger" -> ruleTrigger(wf)
               [] rule = "errorHandling" -> ruleErrorHandling(wf)
               [] rule = "naming" -> ruleNaming(wf)
               [] rule = "credentials" -> ruleCredentials(wf)
               [] OTHER -> [pass |-> FALSE, issues |-> <<>>]
    IN  [rule |-> rule, pass |-> r.pass, issues |-> r.issues,
         malformed |-> rule \notin RuleTable]

\* results[rule] = value: an existing key keeps its place
SetResult(res, entry) ==
    IF \E i \in 1..Len(res) : res[i].rule = entry.rule
    THEN [i \in 1..Len(res) |-> IF res[i].rule = entry.rule THEN entry ELSE res[i]]
    ELSE Append(res, entry)

\* a rule loop that stops at the first rule that fails
RECURSIVE applySelectedUntilFailure(_, _, _)
applySelectedUntilFailure(validationRules, wf, res) ==
    IF validationRules = <<>> THEN res
    ELSE IF HasRule(Head(validationRules))
    THEN LET entry == applyRule(Head(validationRules), wf)
         IN  IF entry.pass
             THEN applySelectedUntilFailure(Tail(validationRules), wf, SetResult(res, entry))
             ELSE SetResult(res, entry)
    ELSE applySelectedUntilFailure(Tail(validationRules), wf, res)

\* for (const rule of validationRules) { if (rules[rule]) results[rule] = ... }
RECURSIVE applySelected(_, _, _)
applySelected(validationRules, wf, res) ==
    IF validationRules = <<>> THEN res
    ELSE applySelected(Tail(validationRules), wf,
            IF HasRule(Head(validationRules))
            THEN SetResult(res, applyRule(Head(validationRules), wf))
            ELSE res)

\* the results table after "Apply the selected validation rules"
applyRules(validationRules, wf) ==
    IF \E i \in 1..Len(validationRules) : validationRules[i] = "all"
    THEN applySelected(RuleOrder, wf, <<>>)
    ELSE applySelected(validationRules, wf, <<>>)

\* allIssues: result.issues.map(issue => `[${ruleName}] ${issue}`) of the failed rules
RECURSIVE collectIssues(_)
collectIssues(res) ==
    IF res = <<>> THEN <<>>
    ELSE (IF ~Head(res).pass
          THEN [k \in 1..Len(Head(res).issues) |->
                   [rule |-> Head(res).rule, text |-> Head(res).issues[k].text,
                    arg |-> Head(res).issues[k].arg]]
          ELSE <<>>) \o collectIssues(Tail(res))

\* reading result.issues.map of an entry that has no issues is a TypeError
collectThrows(res) == \E i \in 1..Len(res) : res[i].malformed

\* what the remote API may hold: nodes of a stored workflow
RemoteNodes ==
    {[name |-> "Start", type |-> START, continueOnFail |-> FALSE, credentials |-> FALSE],
     [name |-> "Fetch", type |-> HTTP, continueOnFail |-> FALSE, credentials |-> TRUE],
     [name |-> "Fetch", type |-> SETNODE, continueOnFail |-> TRUE, credentials |-> FALSE],
     [name |-> SETNODE, type |-> SETNODE, continueOnFail |-> FALSE, credentials |-> FALSE],
     [name |-> "Node 1", type |-> "custom.webhookTrigger", continueOnFail |-> FALSE,
      credentials |-> FALSE]}

RemoteNames == {"", "ab", "Daily report"}

\* connections of a stored workflow: none, first node to last node, or to names
\* that no node of the model has
RemoteConnections(ns) ==
    LET src == IF ns = <<>> THEN "Gone" ELSE ns[1].name
    IN  {NoConnections,
         <<[source |-> src, main |-> <<Connection("Ghost", 0), Connection("Phantom", 0)>>]>>} \cup
        (IF ns = <<>> THEN {}
         ELSE {<<[source |-> src, main |-> <<Connection(ns[Len(ns)].name, 0)>>]>>,
               <<[source |-> src, main |-> <<Connection(ns[Len(ns)].name, 0),
                                              Connection("Ghost", 0)>>]>>})

RemoteWorkflows ==
    UNION {[name : RemoteNames, nodes : {ns}, connections : RemoteConnections(ns),
            settings : [errorWorkflow : {Undefined, "wf-err"}]]
           : ns \in SeqsUpTo(RemoteNodes, MaxWfNodes)}

RuleNames == RuleTable \cup {"all", "bogus"} \cup InheritedKeys

\* hasRules = FALSE: validationRules is absent and defaults to ['all']
ValidateInputs ==
    [workflowId : {"", "wf1"}, hasRules : {TRUE},
     validationRules : SeqsUpTo(RuleNames, MaxRules)] \cup
    [workflowId : {"", "wf1"}, hasRules : {FALSE}, validationRules : {<<>>}]

(***************************************************************************)
(* applyTemplate tool (templates/applyTemplate.ts)                         *)
(***************************************************************************)
TemplateNode(name, type) == [name |-> name, type |-> type]

Chain(names) ==
    [i \in 1..(Len(names) - 1) |->
        [source |-> names[i], main |-> <<Connection(names[i + 1], 0)>>]]

createApiRequestWorkflow(name, parameters) ==
    [name |-> name, description |-> "Workflow created from the API Request template",
     nodes |-> <<TemplateNode("Start", START), TemplateNode("HTTP Request", HTTP),
                 TemplateNode("Process Data", SETNODE)>>,
     connections |-> Chain(<<"Start", "HTTP Request", "Process Data">>),
     tags |-> "api,template"]

createSocialMediaWorkflow(name, parameters) ==
    [name |-> name,
     description |-> "Workflow created from the Social Media Posting template",
     nodes |-> <<TemplateNode("Start", START), TemplateNode("Create Post Content", SETNODE)>>,
     connections |-> Chain(<<"Start", "Create Post Content">>),
     tags |-> "social,marketing,template"]

createDataProcessingWorkflow(name, parameters) ==
    [name |-> name,
     description |-> "Workflow created from the Data Processing Pipeline template",
     nodes |-> <<TemplateNode("Start", START), TemplateNode("Data Source", HTTP),
                 TemplateNode("Transform Data", FUNCTION),
                 TemplateNode("Format Data", SETNODE)>>,
     connections |-> Chain(<<"Start", "Data Source", "Transform Data", "Format Data">>),
     tags |-> "data,transformation,template"]

createNotificationWorkflow(name, parameters) ==
    [name |-> name,
     description |-> "Workflow created from the Notification System template",
     nodes |-> <<TemplateNode("Start", START), TemplateNode("Prepare Notification", SETNODE),
                 TemplateNode("Send Email", EMAIL)>>,
     connections |-> Chain(<<"Start", "Prepare Notification", "Send Email">>),
     tags |-> "notification,email,template"]

\* the cases of the switch in applyTemplate
ApplyTemplateIds == {"api-request", "social-media", "data-processing", "notification"}

NoWorkflowData == [name |-> "", nodes |-> <<>>, connections |-> NoConnections]

\* a switch whose default case falls back to the first template
switchTemplateWithFallback(template_id, name, parameters) ==
    CASE template_id = "social-media" ->
            [found |-> TRUE, workflowData |-> createSocialMediaWorkflow(name, parameters)]
      [] template_id = "data-processing" ->
            [found |-> TRUE, workflowData |-> createDataProcessingWorkflow(name, parameters)]
      [] template_id = "notification" ->
            [found |-> TRUE, workflowData |-> createNotificationWorkflow(name, parameters)]
      [] OTHER ->
            [found |-> TRUE, workflowData |-> createApiRequestWorkflow(name, parameters)]

\* switch (template_id): the workflowData built by the matching case; the default
\* case returns the not-found error
switchTemplate(template_id, name, parameters) ==
    CASE template_id = "api-request" ->
            [found |-> TRUE, workflowData |-> createApiRequestWorkflow(name, parameters)]
      [] template_id = "social-media" ->
            [found |-> TRUE, workflowData |-> createSocialMediaWorkflow(name, parameters)]
      [] template_id = "data-processing" ->
            [found |-> TRUE, workflowData |-> createDataProcessingWorkflow(name, parameters)]
      [] template_id = "notification" ->
            [found |-> TRUE, workflowData |-> createNotificationWorkflow(name, parameters)]
      [] OTHER -> [found |-> FALSE, workflowData |-> NoWorkflowData]

\* the create...Workflow functions that read a property of parameters raise a
\* TypeError when parameters is null
builderThrows(template_id, parameters) ==
    parameters.kind = "null" /\ template_id \in {"api-request", "social-media", "notification"}

\* if (parameters) { description and tags of the parameters replace the template's }
applyParameters(workflowData, parameters) ==
    IF parameters.kind # "object" THEN workflowData
    ELSE [workflowData EXCEPT
            !.description = IF parameters.description # "" THEN parameters.description ELSE @,
            !.tags = IF parameters.tags # "" THEN parameters.tags ELSE @]

\* parameters of applyTemplate: kind "absent" takes the default {}, "null" is null
ApplyParameters ==
    {[kind |-> "absent", description |-> "", tags |-> ""],
     [kind |-> "null", description |-> "", tags |-> ""]} \cup
    [kind : {"object"}, description : {"", "custom description"}, tags : {"", "mine"}]

ApplyInputs ==
    [template_id : ApplyTemplateIds \cup {"", "social-media-monitoring", "constructor"},
     name : {"", "My flow"},
     parameters : ApplyParameters]

(***************************************************************************)
(* State machine                                                           *)
(***************************************************************************)
NoResult == [kind |-> "none"]

\* no handler runs: nothing is asked of the remote API
NoServer == [answers |-> <<>>, execution |-> [status |-> "success", id |-> "value"]]
ErrorResult(message, arg) == [kind |-> "error", message |-> message, arg |-> arg]

NoRequirements ==
    [name |-> "", description |-> [empty |-> TRUE, words |-> {}, nameMatch |-> "none"],
     operations |-> {}, conditionalLogic |-> FALSE, scheduling |-> Undefined,
     templateId |-> Undefined, complexity |-> "simple"]

NoWorkflow == [name |-> "", nodes |-> <<>>, connections |-> NoConnections]

\* input.description of generateWorkflow
Descriptions ==
    {[empty |-> TRUE, words |-> {}, nameMatch |-> "none"]} \cup
    [empty : {FALSE}, words : SUBSET Vocabulary, nameMatch : {"none", "blank", "text"}]

\* what input.requiredNodes may name: catalog types, a type the catalog does
\* not have, and a name every object inherits
RequiredTypes == {SETNODE, IFNODE, EMAIL, "custom.unknown", "constructor"}

GenerateInputs ==
    [description : Descriptions, requiredNodes : SeqsUpTo(RequiredTypes, MaxRequired)]

Init ==
    /\ pc = "idle"
    /\ tool = None
    /\ input = EmptyMap
    /\ requirements = NoRequirements
    /\ neededNodes = <<>>
    /\ nodes = <<>>
    /\ connections = NoConnections
    /\ workflow = NoWorkflow
    /\ results = <<>>
    /\ apiCalls = <<>>
    /\ exception = NoError
    /\ result = NoResult
    /\ server = NoServer
    /\ heap = CatalogHeap
    /\ instances = <<>>

\* a client calls generateWorkflow
InvokeGenerate ==
    /\ pc = "idle"
    /\ \E in \in GenerateInputs : input' = in
    /\ tool' = "generateWorkflow"
    /\ pc' = "gen_parse"
    /\ UNCHANGED <<server, heap, instances, requirements, neededNodes, nodes, connections, workflow, results,
                   apiCalls, exception, result>>

\* if (!input.description) return error; requirements = parseWorkflowRequirements(...)
GenParse ==
    /\ pc = "gen_parse"
    /\ IF input.description.empty
       THEN /\ result' = ErrorResult("Workflow description is required", "")
            /\ pc' = "return"
            /\ UNCHANGED requirements
       ELSE /\ requirements' = parseWorkflowRequirements(input.description)
            /\ pc' = "gen_nodes"
            /\ UNCHANGED result
    /\ UNCHANGED <<server, heap, instances, tool, input, neededNodes, nodes, connections, workflow, results,
                   apiCalls, exception>>

\* neededNodes = determineRequiredNodes(requirements, input.requiredNodes)
GenDetermine ==
    /\ pc = "gen_nodes"
    /\ neededNodes' = determineRequiredNodes(requirements, input.requiredNodes)
    /\ pc' = "gen_structure"
    /\ UNCHANGED <<server, heap, instances, tool, input, requirements, nodes, connections, workflow, results,
                   apiCalls, exception, result>>

\* nodes = createNodeStructure(neededNodes, requirements)
GenStructure ==
    /\ pc = "gen_structure"
    /\ LET built == createNodeStructure(neededNodes, requirements)
       IN  IF built.threw
           THEN /\ exception' = [message |-> "TypeError", arg |-> "name"]
                /\ pc' = "gen_catch"
                /\ UNCHANGED nodes
           ELSE /\ nodes' = built.nodes
                /\ pc' = "gen_connect"
                /\ UNCHANGED exception
    /\ UNCHANGED <<server, heap, instances, tool, input, requirements, neededNodes, connections, workflow,
                   results, apiCalls, result>>

\* connections = workflow.connections of the template that supplied the nodes
GenConnectFromTemplate ==
    /\ pc = "gen_connect"
    /\ connections' =
          IF requirements.templateId # Undefined /\ requirements.templateId \in TemplateIds
          THEN workflowTemplates(requirements.templateId,
                                 templateParams(requirements)).connections
          ELSE createConnections(nodes)
    /\ pc' = "gen_validate"
    /\ UNCHANGED <<server, heap, instances, tool, input, requirements, neededNodes, nodes, workflow, results,
                   apiCalls, exception, result>>

\* connections = createConnections(nodes)
GenConnect ==
    /\ pc = "gen_connect"
    /\ connections' = createConnections(nodes)
    /\ pc' = "gen_validate"
    /\ UNCHANGED <<server, heap, instances, tool, input, requirements, neededNodes, nodes, workflow, results,
                   apiCalls, exception, result>>

GeneratedWorkflow ==
    [name |-> requirements.name, nodes |-> nodes, connections |-> connections,
     active |-> FALSE,
     settings |-> [executionOrder |-> "v1", saveExecutionProgress |-> TRUE,
                   saveManualExecutions |-> TRUE]]

\* validateWorkflow(workflow)
GenValidate ==
    /\ pc = "gen_validate"
    /\ exception' = validateWorkflow(GeneratedWorkflow)
    /\ pc' = IF exception' = NoError THEN "gen_explain" ELSE "gen_catch"
    /\ UNCHANGED <<server, heap, instances, tool, input, requirements, neededNodes, nodes, connections, workflow,
                   results, apiCalls, result>>

\* generateExplanations(workflow, requirements); return { data: { workflow, ... } }
GenExplain ==
    /\ pc = "gen_explain"
    /\ IF generateExplanationsThrows(nodes)
       THEN /\ exception' = [message |-> "TypeError", arg |-> "replace"]
            /\ pc' = "gen_catch"
            /\ UNCHANGED result
       ELSE /\ result' = [kind |-> "data", workflow |-> GeneratedWorkflow]
            /\ pc' = "return"
            /\ UNCHANGED exception
    /\ UNCHANGED <<server, heap, instances, tool, input, requirements, neededNodes, nodes, connections, workflow,
                   results, apiCalls>>

\* catch (error) { return { error: { message: error.message || ... } } }
GenCatch ==
    /\ pc = "gen_catch"
    /\ result' = ErrorResult(exception.message, exception.arg)
    /\ pc' = "return"
    /\ UNCHANGED <<server, heap, instances, tool, input, requirements, neededNodes, nodes, connections, workflow,
                   results, apiCalls, exception>>

\* the handler's promise resolves; the server waits for the next call
Return ==
    /\ pc = "return"
    /\ pc' = "idle"
    /\ tool' = None
    /\ input' = EmptyMap
    /\ requirements' = NoRequirements
    /\ neededNodes' = <<>>
    /\ nodes' = <<>>
    /\ connections' = NoConnections
    /\ workflow' = NoWorkflow
    /\ results' = <<>>
    /\ apiCalls' = <<>>
    /\ exception' = NoError
    /\ result' = NoResult
    /\ server' = NoServer
    /\ UNCHANGED <<heap, instances>>

NextGenerate ==
    \/ InvokeGenerate
    \/ GenParse
    \/ GenDetermine
    \/ GenStructure
    \/ GenConnect
    \/ GenValidate
    \/ GenExplain
    \/ GenCatch
    \/ Return

(***************************************************************************)
(* validateWorkflow tool                                                   *)
(***************************************************************************)
InvokeValidate ==
    /\ pc = "idle"
    /\ \E in \in ValidateInputs : input' = in
    /\ tool' = "validateWorkflow"
    /\ pc' = "val_start"
    /\ UNCHANGED <<server, heap, instances, requirements, neededNodes, nodes, connections, workflow, results,
                   apiCalls, exception, result>>

\* if (!workflowId) return { error: ... }
ValStart ==
    /\ pc = "val_start"
    /\ IF input.workflowId = ""
       THEN /\ result' = ErrorResult("Workflow ID is required for validation", "")
            /\ pc' = "return"
       ELSE /\ pc' = "val_get"
            /\ UNCHANGED result
    /\ UNCHANGED <<server, heap, instances, tool, input, requirements, neededNodes, nodes, connections, workflow,
                   results, apiCalls, exception>>

\* workflow = await n8nApi.getWorkflow(workflowId), which rejects or resolves to a
\* workflow of the remote instance
ValGetWorkflow ==
    /\ pc = "val_get"
    /\ apiCalls' = Append(apiCalls, "getWorkflow")
    /\ \/ /\ result' = ErrorResult("Failed to retrieve workflow", input.workflowId)
          /\ pc' = "return"
          /\ UNCHANGED workflow
       \/ /\ \E wf \in RemoteWorkflows : workflow' = wf
          /\ pc' = "val_rules"
          /\ UNCHANGED result
    /\ UNCHANGED <<server, heap, instances, tool, input, requirements, neededNodes, nodes, connections, results,
                   exception>>

requestedRules == IF input.hasRules THEN input.validationRules ELSE <<"all">>

\* Apply the selected validation rules
ValApplyRules ==
    /\ pc = "val_rules"
    /\ results' = applyRules(requestedRules, workflow)
    /\ pc' = "val_collect"
    /\ UNCHANGED <<server, heap, instances, tool, input, requirements, neededNodes, nodes, connections, workflow,
                   apiCalls, exception, result>>

\* Collect all issues; return { body: { validationPassed, ruleResults, issues } }
ValCollect ==
    /\ pc = "val_collect"
    /\ IF collectThrows(results)
       THEN /\ exception' = [message |-> "TypeError", arg |-> "map"]
            /\ pc' = "val_catch"
            /\ UNCHANGED result
       ELSE /\ result' = [kind |-> "body",
                          workflowName |-> workflow.name,
                          validationPassed |-> \A i \in 1..Len(results) : results[i].pass,
                          ruleResults |-> results,
                          issues |-> collectIssues(results)]
            /\ pc' = "return"
            /\ UNCHANGED exception
    /\ UNCHANGED <<server, heap, instances, tool, input, requirements, neededNodes, nodes, connections, workflow,
                   results, apiCalls>>

\* catch (error) { return { error: { message: `Validation failed: ${error.message}` } } }
ValCatch ==
    /\ pc = "val_catch"
    /\ result' = ErrorResult("Validation failed: ", exception.message)
    /\ pc' = "return"
    /\ UNCHANGED <<server, heap, instances, tool, input, requirements, neededNodes, nodes, connections, workflow,
                   results, apiCalls, exception>>

\* the generator's validateWorkflow(workflow) applied to a workflow document: it
\* returns or throws
GraphValidate ==
    /\ pc = "idle"
    /\ \E wf \in RemoteWorkflows :
          /\ workflow' = wf
          /\ exception' = validateWorkflow(wf)
    /\ tool' = "validateWorkflow(workflow)"
    /\ pc' = "return"
    /\ UNCHANGED <<server, heap, instances, input, requirements, neededNodes, nodes, connections, results,
                   apiCalls, result>>

NextValidate ==
    \/ InvokeValidate
    \/ ValStart
    \/ ValGetWorkflow
    \/ ValApplyRules
    \/ ValCollect
    \/ ValCatch
    \/ GraphValidate
    \/ Return

(***************************************************************************)
(* applyTemplate tool                                                      *)
(***************************************************************************)
InvokeApply ==
    /\ pc = "idle"
    /\ \E in \in ApplyInputs : input' = in
    /\ tool' = "applyTemplate"
    /\ pc' = "apply_start"
    /\ UNCHANGED <<server, heap, instances, requirements, neededNodes, nodes, connections, workflow, results,
                   apiCalls, exception, result>>

\* the input checks, the switch and "Apply custom parameters to the workflow"
ApplyBuild ==
    /\ pc = "apply_start"
    /\ LET built == switchTemplate(input.template_id, input.name, input.parameters)
       IN  IF input.template_id = ""
           THEN /\ result' = ErrorResult("Template ID is required", "")
                /\ pc' = "return"
                /\ UNCHANGED <<workflow, exception>>
           ELSE IF input.name = ""
           THEN /\ result' = ErrorResult("Workflow name is required", "")
                /\ pc' = "return"
                /\ UNCHANGED <<workflow, exception>>
           ELSE IF ~built.found
           THEN /\ result' = ErrorResult("Template not found", input.template_id)
                /\ pc' = "return"
                /\ UNCHANGED <<workflow, exception>>
           ELSE IF builderThrows(input.template_id, input.parameters)
           THEN /\ exception' = [message |-> "TypeError", arg |-> "parameters"]
                /\ pc' = "apply_catch"
                /\ UNCHANGED <<workflow, result>>
           ELSE /\ workflow' = applyParameters(built.workflowData, input.parameters)
                /\ pc' = "apply_create"
                /\ UNCHANGED <<result, exception>>
    /\ UNCHANGED <<server, heap, instances, tool, input, requirements, neededNodes, nodes, connections, results,
                   apiCalls>>

\* workflow = await n8nApi.createWorkflow(workflowData), which resolves or rejects
ApplyCreate ==
    /\ pc = "apply_create"
    /\ apiCalls' = Append(apiCalls, "createWorkflow")
    /\ \/ /\ result' = [kind |-> "data", workflow |-> workflow,
                        template_id |-> input.template_id]
          /\ pc' = "return"
          /\ UNCHANGED exception
       \/ /\ exception' = [message |-> "Request failed", arg |-> "createWorkflow"]
          /\ pc' = "apply_catch"
          /\ UNCHANGED result
    /\ UNCHANGED <<server, heap, instances, tool, input, requirements, neededNodes, nodes, connections, workflow,
                   results>>

\* catch (error) { return { error: { message: `Failed to apply template: ...` } } }
ApplyCatch ==
    /\ pc = "apply_catch"
    /\ result' = ErrorResult("Failed to apply template: ", exception.message)
    /\ pc' = "return"
    /\ UNCHANGED <<server, heap, instances, tool, input, requirements, neededNodes, nodes, connections, workflow,
                   results, apiCalls, exception>>

NextApply ==
    \/ InvokeApply
    \/ ApplyBuild
    \/ ApplyCreate
    \/ ApplyCatch
    \/ Return

(***************************************************************************)
(* createNode, object by object                                            *)
(***************************************************************************)
\* the builder of a graph calls createNode(nodeDefinitions[type], id, position,
\* customParameters) and keeps the node; every call here is of another graph
CreateNode ==
    /\ pc = "idle"
    /\ Len(instances) < MaxBuilt
    /\ \E type \in ObjectTypes, shape \in OverrideShapes :
          LET custom == customParametersOf(shape, Len(heap))
              node == createNode(objectDefinition(type),
                                 createNodeId(type, Len(instances) + 1),
                                 <<250, 300>>, custom, "")
          IN  /\ heap' = Allocate(heap, shape)
              /\ instances' = Append(instances,
                    [graph |-> Len(instances) + 1, type |-> type,
                     customParameters |-> custom, node |-> node])
    /\ UNCHANGED <<pc, tool, input, requirements, neededNodes, nodes, connections,
                   workflow, results, apiCalls, exception, result, server>>

\* the owner of a built graph sets a field of a nested parameter of one of its
\* nodes: node.parameters[key].changed = 'yes'
MutateNested ==
    /\ pc = "idle"
    /\ \E i \in 1..Len(instances) :
          \E key \in DOMAIN instances[i].node.parameters :
              /\ instances[i].node.parameters[key].ref # 0
              /\ heap' = SetNested(heap, instances[i].node.parameters[key].ref,
                                   "changed", "yes")
    /\ UNCHANGED <<pc, tool, input, requirements, neededNodes, nodes, connections,
                   workflow, results, apiCalls, exception, result, server, instances>>

NextCreateNode ==
    \/ CreateNode
    \/ MutateNested

(***************************************************************************)
(* The dispatcher (index.ts) and the tool handlers, each as a function of  *)
(* its input and of what the remote API answers.  An input field is        *)
(* "missing" (undefined), "empty" ('' or []) or "value"; the remote API    *)
(* answers the k-th call of a handler with api[k].                         *)
(***************************************************************************)
Missing == "missing"
Empty == "empty"
Value == "value"

\* the input object; defined = FALSE is an undefined input
Input(fields) == [defined |-> TRUE, fields |-> fields]
UndefinedInput == [defined |-> FALSE, fields |-> EmptyMap]

\* JavaScript truthiness of a field: !field is true for undefined, '' and missing
Truthy(in, field) == in.fields[field] \notin {Missing, Empty}

\* what a handler has done when its promise settles: the result it resolved to
\* ("reject": the promise rejected) and the remote API calls it made, in order
Outcome(kind, message, calls) == [kind |-> kind, message |-> message, calls |-> calls]
DataResult(calls) == Outcome("data", "", calls)
BodyResult(calls) == Outcome("body", "", calls)
ErrorOutcome(message, calls) == Outcome("error", message, calls)
Rejected(calls) == Outcome("reject", "TypeError", calls)

\* the execution the remote API answers with: its status (N8nExecution.status,
\* and 'failed', which runWorkflow tests for) and its id, which the type
\* leaves optional
ExecutionStatuses == {"success", "failed", "error", "crashed"}
RemoteExecutions == [status : ExecutionStatuses, id : {Value, Missing}]

\* execution.data.resultData.error is set
HoldsError(remote) == remote.status # "success"

\* await n8nApi.op(...): the call is appended with the answer it gets
Call(calls, op, api) == Append(calls, [op |-> op, ok |-> api[Len(calls) + 1] = "ok"])
LastOk(calls) == calls[Len(calls)].ok

\* listWorkflows.ts
listWorkflows(in, api) ==
    IF ~in.defined THEN ErrorOutcome("Failed to list workflows: ", <<>>)
    ELSE LET c1 == Call(<<>>, "getWorkflows", api)
         IN  IF LastOk(c1) THEN DataResult(c1)
             ELSE ErrorOutcome("Failed to list workflows: ", c1)

\* getWorkflow.ts
getWorkflow(in, api) ==
    IF ~in.defined THEN ErrorOutcome("Failed to get workflow: ", <<>>)
    ELSE IF ~Truthy(in, "id") THEN ErrorOutcome("Workflow ID is required", <<>>)
    ELSE LET c1 == Call(<<>>, "getWorkflow", api)
         IN  IF LastOk(c1) THEN DataResult(c1)
             ELSE ErrorOutcome("Failed to get workflow: ", c1)

\* createWorkflow (listWorkflows.ts)
createWorkflow(in, api) ==
    IF ~in.defined THEN ErrorOutcome("Failed to create workflow: ", <<>>)
    ELSE IF ~Truthy(in, "name") \/ ~Truthy(in, "description")
    THEN ErrorOutcome("Workflow name and description are required", <<>>)
    ELSE LET c1 == Call(<<>>, "createWorkflow", api)
         IN  IF LastOk(c1) THEN DataResult(c1)
             ELSE ErrorOutcome("Failed to create workflow: ", c1)

\* activateWorkflow.ts: the catch block reads input.active, which throws again
\* when input is undefined
activateWorkflow(in, api) ==
    IF ~in.defined THEN Rejected(<<>>)
    ELSE IF ~Truthy(in, "id") THEN ErrorOutcome("Workflow ID is required", <<>>)
    ELSE IF in.fields["active"] = Missing
    THEN ErrorOutcome("Active status is required", <<>>)
    ELSE LET c1 == Call(<<>>, "setWorkflowActive", api)
         IN  IF LastOk(c1) THEN DataResult(c1)
             ELSE ErrorOutcome("Failed to activate workflow: ", c1)

\* deleteWorkflow.ts as it would be if a failed getWorkflow ended the handler
deleteWorkflowLookupRequired(in, api) ==
    IF ~in.defined THEN ErrorOutcome("Failed to delete workflow: ", <<>>)
    ELSE IF ~Truthy(in, "id") THEN ErrorOutcome("Workflow ID is required", <<>>)
    ELSE LET c1 == Call(<<>>, "getWorkflow", api)
             c2 == Call(c1, "deleteWorkflow", api)
         IN  IF ~LastOk(c1) THEN ErrorOutcome("Failed to delete workflow: ", c1)
             ELSE IF LastOk(c2) THEN DataResult(c2)
             ELSE ErrorOutcome("Failed to delete workflow: ", c2)

\* deleteWorkflow.ts: a failed getWorkflow is only logged
deleteWorkflow(in, api) ==
    IF ~in.defined THEN ErrorOutcome("Failed to delete workflow: ", <<>>)
    ELSE IF ~Truthy(in, "id") THEN ErrorOutcome("Workflow ID is required", <<>>)
    ELSE LET c1 == Call(<<>>, "getWorkflow", api)
             c2 == Call(c1, "deleteWorkflow", api)
         IN  IF LastOk(c2) THEN DataResult(c2)
             ELSE ErrorOutcome("Failed to delete workflow: ", c2)

\* createResearchWorkflow.ts
createResearchWorkflow(in, api) ==
    IF ~in.defined THEN ErrorOutcome("Failed to create research workflow: ", <<>>)
    ELSE IF ~Truthy(in, "name") \/ ~Truthy(in, "description")
    THEN ErrorOutcome("Workflow name and description are required", <<>>)
    ELSE LET c1 == Call(<<>>, "createWorkflow", api)
         IN  IF LastOk(c1) THEN DataResult(c1)
             ELSE ErrorOutcome("Failed to create research workflow: ", c1)

\* generateNode.ts: config_description is read and never checked
generateNode(in, api) ==
    IF ~in.defined THEN ErrorOutcome("Failed to generate node: ", <<>>)
    ELSE IF ~Truthy(in, "node_type") THEN ErrorOutcome("Node type is required", <<>>)
    ELSE DataResult(<<>>)

\* runWorkflow.ts as it would be if the workflow were executed whether or not
\* it was found
runWorkflowUnchecked(in, api, remote) ==
    IF ~in.defined THEN ErrorOutcome("Failed to run workflow: ", <<>>)
    ELSE IF ~Truthy(in, "id") THEN ErrorOutcome("Workflow ID is required", <<>>)
    ELSE LET c1 == Call(<<>>, "getWorkflow", api)
             c2 == Call(c1, "executeWorkflow", api)
         IN  IF ~LastOk(c2) THEN ErrorOutcome("Failed to run workflow: ", c2)
             ELSE IF ~LastOk(c1) THEN ErrorOutcome("Workflow with ID not found: ", c2)
             ELSE IF remote.status = "failed" THEN ErrorOutcome("Workflow execution failed", c2)
             ELSE DataResult(c2)

\* runWorkflow.ts: only the status 'failed' of the execution is an error
runWorkflow(in, api, remote) ==
    IF ~in.defined THEN ErrorOutcome("Failed to run workflow: ", <<>>)
    ELSE IF ~Truthy(in, "id") THEN ErrorOutcome("Workflow ID is required", <<>>)
    ELSE LET c1 == Call(<<>>, "getWorkflow", api)
             c2 == Call(c1, "executeWorkflow", api)
         IN  IF ~LastOk(c1) THEN ErrorOutcome("Workflow with ID not found: ", c1)
             ELSE IF ~LastOk(c2) THEN ErrorOutcome("Failed to run workflow: ", c2)
             ELSE IF remote.status = "failed" THEN ErrorOutcome("Workflow execution failed", c2)
             ELSE DataResult(c2)

\* getExecutionLogs.ts
getExecutionLogs(in, api) ==
    IF ~in.defined THEN ErrorOutcome("Failed to retrieve execution logs: ", <<>>)
    ELSE IF ~Truthy(in, "workflow_id") THEN ErrorOutcome("Workflow ID is required", <<>>)
    ELSE IF Truthy(in, "execution_id")
    THEN LET c1 == Call(<<>>, "getExecution", api)
         IN  IF LastOk(c1) THEN DataResult(c1)
             ELSE ErrorOutcome("Failed to retrieve execution details: ", c1)
    ELSE LET c1 == Call(<<>>, "getExecutions", api)
         IN  IF LastOk(c1) THEN DataResult(c1)
             ELSE ErrorOutcome("Failed to retrieve execution logs: ", c1)

\* fixWorkflowError.ts: the error details are read from the execution fetched.  A failed getExecution is only logged ("continue with just the
\* workflow")
fixWorkflowError(in, api, remote) ==
    IF ~in.defined THEN ErrorOutcome("Failed to analyze workflow error: ", <<>>)
    ELSE IF ~Truthy(in, "workflow_id") THEN ErrorOutcome("Workflow ID is required", <<>>)
    ELSE LET c1 == Call(<<>>, "getWorkflow", api)
             c2 == IF Truthy(in, "execution_id") THEN Call(c1, "getExecution", api) ELSE c1
             fromExecution == Truthy(in, "execution_id") /\ LastOk(c2) /\ HoldsError(remote)
             errorDetails == fromExecution \/ Truthy(in, "error_message")
         IN  IF ~LastOk(c1) THEN ErrorOutcome("Failed to retrieve workflow: ", c1)
             ELSE IF ~errorDetails THEN ErrorOutcome("No error details found", c2)
             ELSE DataResult(c2)

\* listTemplates.ts: the templates are a literal of the source
listTemplates(in) ==
    IF ~in.defined THEN ErrorOutcome("Failed to list templates: ", <<>>)
    ELSE DataResult(<<>>)

\* applyTemplate.ts, as a function of its input and of the API's answer
applyTemplate(in, api) ==
    IF ~in.defined THEN ErrorOutcome("Failed to apply template: ", <<>>)
    ELSE IF ~Truthy(in, "template_id") THEN ErrorOutcome("Template ID is required", <<>>)
    ELSE IF ~Truthy(in, "name") THEN ErrorOutcome("Workflow name is required", <<>>)
    ELSE LET parameters == [kind |-> IF in.fields["parameters"] = Missing THEN "absent"
                                     ELSE in.fields["parameters"],
                            description |-> "", tags |-> ""]
             built == switchTemplate(in.fields["template_id"], "My flow", parameters)
             c1 == Call(<<>>, "createWorkflow", api)
         IN  IF ~built.found THEN ErrorOutcome("Template not found", <<>>)
             ELSE IF builderThrows(in.fields["template_id"], parameters)
             THEN ErrorOutcome("Failed to apply template: ", <<>>)
             ELSE IF LastOk(c1) THEN DataResult(c1)
             ELSE ErrorOutcome("Failed to apply template: ", c1)

\* createSocialPostWorkflow.ts: platforms = [] when missing, and an empty list
\* of platforms is refused
createSocialPostWorkflowTool(in, api) ==
    IF ~in.defined THEN ErrorOutcome("Failed to create social post workflow: ", <<>>)
    ELSE IF ~Truthy(in, "name") THEN ErrorOutcome("Workflow name is required", <<>>)
    ELSE IF ~Truthy(in, "platforms")
    THEN ErrorOutcome("At least one platform is required", <<>>)
    ELSE LET c1 == Call(<<>>, "createWorkflow", api)
         IN  IF LastOk(c1) THEN DataResult(c1)
             ELSE ErrorOutcome("Failed to create social post workflow: ", c1)

\* generateWorkflow after createNodeStructure: createConnections,
\* validateWorkflow and generateExplanations, any throw caught into an error
generatedOutcome(built, validation) ==
    IF built.threw THEN ErrorOutcome("TypeError", <<>>)
    ELSE IF validation # NoError THEN ErrorOutcome(validation.message, <<>>)
    ELSE IF generateExplanationsThrows(built.nodes) THEN ErrorOutcome("TypeError", <<>>)
    ELSE DataResult(<<>>)

generatedWorkflow(name, ns) ==
    [name |-> name, nodes |-> ns, connections |-> createConnections(ns), active |-> FALSE,
     settings |-> [executionOrder |-> "v1", saveExecutionProgress |-> TRUE,
                   saveManualExecutions |-> TRUE]]

structureOutcome(reqs, built) ==
    generatedOutcome(built, validateWorkflow(generatedWorkflow(reqs.name, built.nodes)))

requirementsOutcome(reqs, requiredNodes) ==
    structureOutcome(reqs, createNodeStructure(determineRequiredNodes(reqs, requiredNodes), reqs))

\* generateWorkflow of the generation assistant, start to end: in.request is
\* the description and the requiredNodes of a present description
generateWorkflow(in) ==
    IF ~in.defined THEN ErrorOutcome("TypeError", <<>>)
    ELSE IF ~Truthy(in, "description")
    THEN ErrorOutcome("Workflow description is required", <<>>)
    ELSE requirementsOutcome(parseWorkflowRequirements(in.request.description),
                             in.request.requiredNodes)

\* smart-debugger: parseErrorLogs makes the failure of getExecution or of
\* getExecutions the message of the error it analyses.  With only a workflowId
\* it lists the executions and, when one has status 'error' or 'crashed',
\* calls itself with {...input, executionId: failedExecution.id}; an execution
\* without an id leaves executionId falsy and the call lists the executions
\* again.  "pending": parseErrorLogs is still calling itself when the answers
\* of the remote API that are modelled run out
RECURSIVE parseErrorLogs(_, _, _, _)
parseErrorLogs(in, api, remote, calls) ==
    IF Truthy(in, "logContent") THEN DataResult(calls)
    ELSE IF Truthy(in, "executionId") THEN DataResult(Call(calls, "getExecution", api))
    ELSE IF Truthy(in, "workflowId")
    THEN IF Len(calls) = MaxCalls THEN Outcome("pending", "", calls)
         ELSE IF api[Len(calls) + 1] = "ok" /\ remote.status \in {"error", "crashed"}
         THEN parseErrorLogs([in EXCEPT !.fields["executionId"] = remote.id], api, remote,
                             Call(calls, "getExecutions", api))
         ELSE DataResult(Call(calls, "getExecutions", api))
    ELSE DataResult(calls)

\* analyzeWorkflowError returns the analysis of what parseErrorLogs found
analyzeWorkflowError(in, api, remote) ==
    IF ~in.defined THEN ErrorOutcome("TypeError", <<>>)
    ELSE parseErrorLogs(in, api, remote, <<>>)

\* expression-builder handler: description.toLowerCase() throws for a missing
\* description; an empty one scores no template and the first three are used
expressionBuilderHandler(in) ==
    IF ~in.defined THEN ErrorOutcome("TypeError", <<>>)
    ELSE IF in.fields["description"] = Missing THEN ErrorOutcome("TypeError", <<>>)
    ELSE BodyResult(<<>>)

\* Workflow-as-Code converter handler; workflow is "value" for a workflow in
\* the builders' shape (connections.main is a map), "list" for one whose
\* connections.main is an array, as the converter's own parser makes it
convertWorkflowHandler(in) ==
    IF ~in.defined THEN ErrorOutcome("TypeError", <<>>)
    ELSE IF ~Truthy(in, "workflow") THEN ErrorOutcome("Workflow conversion failed: ", <<>>)
    ELSE IF ~Truthy(in, "targetFormat")
    THEN ErrorOutcome("Workflow conversion failed: Unsupported target format", <<>>)
    ELSE IF in.fields["workflow"] = Value
    THEN ErrorOutcome("Workflow conversion failed: connections.main is not iterable", <<>>)
    ELSE BodyResult(<<>>)

\* the tool names of the switch in execute, a name the switch does not have
\* and a name without the 'n8n/' prefix
DispatchedTools ==
    {"n8n/list_workflows", "n8n/get_workflow", "n8n/create_workflow",
     "n8n/activate_workflow", "n8n/delete_workflow", "n8n/create_research_workflow",
     "n8n/create_social_post_workflow", "n8n/generate_node", "n8n/run_workflow",
     "n8n/get_execution_logs", "n8n/fix_workflow_error", "n8n/list_templates",
     "n8n/apply_template", "n8n/generate_workflow", "n8n/analyze_error",
     "n8n/build_expression", "n8n/convert_workflow"}
InfrastructureCases ==
    {"n8n/deploy_workflow", "n8n/validate_workflow", "n8n/manage_credentials",
     "n8n/generate_environment_config"}
ToolNames == DispatchedTools \cup InfrastructureCases \cup {"n8n/unknown_tool", "list_workflows"}

\* inputSchema.required of the manifest
Required(name) ==
    CASE name = "n8n/get_workflow" -> {"id"}
      [] name = "n8n/create_workflow" -> {"name", "description"}
      [] name = "n8n/activate_workflow" -> {"id", "active"}
      [] name = "n8n/delete_workflow" -> {"id"}
      [] name = "n8n/create_research_workflow" -> {"name", "description"}
      [] name = "n8n/create_social_post_workflow" -> {"name", "platforms"}
      [] name = "n8n/generate_node" -> {"node_type", "config_description"}
      [] name = "n8n/run_workflow" -> {"id"}
      [] name = "n8n/get_execution_logs" -> {"workflow_id"}
      [] name = "n8n/fix_workflow_error" -> {"workflow_id"}
      [] name = "n8n/apply_template" -> {"template_id", "name"}
      [] name = "n8n/generate_workflow" -> {"description"}
      [] name = "n8n/build_expression" -> {"description"}
      [] name = "n8n/convert_workflow" -> {"workflow", "targetFormat"}
      [] name = "n8n/deploy_workflow" -> {"workflowId", "environments"}
      [] name = "n8n/validate_workflow" -> {"workflowId"}
      [] name = "n8n/manage_credentials" -> {"action"}
      [] name = "n8n/generate_environment_config" -> {"environmentName"}
      [] OTHER -> {}

\* the optional properties of the manifest that a handler's control flow reads
Optional(name) ==
    CASE name = "n8n/get_execution_logs" -> {"execution_id"}
      [] name = "n8n/fix_workflow_error" -> {"execution_id", "error_message"}
      [] name = "n8n/apply_template" -> {"parameters"}
      [] name = "n8n/analyze_error" -> {"logContent", "executionId", "workflowId"}
      [] OTHER -> {}

\* the values a client may give a property
FieldValues(name, field) ==
    CASE name = "n8n/apply_template" /\ field = "template_id" ->
            {Missing, Empty, "api-request", "notification", "social-media-monitoring"}
      [] name = "n8n/apply_template" /\ field = "parameters" -> {Missing, "null", "object"}
      [] name = "n8n/convert_workflow" /\ field = "workflow" -> {Missing, Empty, Value, "list"}
      [] name = "n8n/activate_workflow" /\ field = "active" -> {Missing, Value}
      [] OTHER -> {Missing, Empty, Value}

\* the descriptions and requiredNodes given to n8n/generate_workflow
ExecuteRequests ==
    [description : [empty : {FALSE}, words : SUBSET {"condition"},
                    nameMatch : {"none", "blank", "text"}],
     requiredNodes : SeqsUpTo(RequiredTypes, 1)]

FieldAssignments(name) ==
    {f \in [Required(name) \cup Optional(name) -> {Missing, Empty, Value, "null", "object",
                "list", "api-request", "notification", "social-media-monitoring"}] :
        \A field \in DOMAIN f : f[field] \in FieldValues(name, field)}

\* params.input
ToolInputs(name) ==
    {UndefinedInput} \cup
    IF name = "n8n/generate_workflow"
    THEN {[defined |-> TRUE, fields |-> [description |-> d], request |-> g] :
            d \in {Missing, Empty}, g \in {CHOOSE g \in ExecuteRequests : TRUE}} \cup
         {[defined |-> TRUE, fields |-> [description |-> Value], request |-> g] :
            g \in ExecuteRequests}
    ELSE {Input(f) : f \in FieldAssignments(name)}

\* name of the tools in commonInfrastructureTools
InfrastructureToolNames ==
    {"deployWorkflow", "validateWorkflow", "manageCredentials", "generateEnvironmentConfig"}

\* tool.replace('n8n/', '')
WithoutPrefix(name) ==
    CASE name = "n8n/deploy_workflow" -> "deploy_workflow"
      [] name = "n8n/validate_workflow" -> "validate_workflow"
      [] name = "n8n/manage_credentials" -> "manage_credentials"
      [] name = "n8n/generate_environment_config" -> "generate_environment_config"
      [] OTHER -> name

\* the handlers of commonInfrastructureTools, as functions of their input and
\* of the API's answers.  deployWorkflow without force validates the workflow,
\* and validateWorkflow fetches it again; a validation that reports issues
\* is a body, not an error
infrastructureHandler(toolName, in, api) ==
    IF ~in.defined THEN ErrorOutcome("TypeError", <<>>)
    ELSE CASE toolName = "deployWorkflow" ->
                LET c1 == Call(<<>>, "getWorkflow", api)
                    c2 == Call(c1, "getWorkflow", api)
                IN  IF ~Truthy(in, "workflowId")
                    THEN ErrorOutcome("Workflow ID is required for deployment", <<>>)
                    ELSE IF ~Truthy(in, "environments")
                    THEN ErrorOutcome("At least one target environment is required", <<>>)
                    ELSE IF ~LastOk(c1) THEN ErrorOutcome("Failed to retrieve workflow", c1)
                    ELSE IF ~LastOk(c2)
                    THEN ErrorOutcome("Validation failed, deployment aborted", c2)
                    ELSE BodyResult(c2)
           [] toolName = "validateWorkflow" ->
                LET c1 == Call(<<>>, "getWorkflow", api)
                IN  IF ~Truthy(in, "workflowId")
                    THEN ErrorOutcome("Workflow ID is required for validation", <<>>)
                    ELSE IF ~LastOk(c1) THEN ErrorOutcome("Failed to retrieve workflow", c1)
                    ELSE BodyResult(c1)
           [] toolName = "manageCredentials" ->
                IF ~Truthy(in, "action") THEN ErrorOutcome("Credential action is required", <<>>)
                ELSE BodyResult(<<>>)
           [] OTHER ->
                IF ~Truthy(in, "environmentName")
                THEN ErrorOutcome("Environment name is required", <<>>)
                ELSE BodyResult(<<>>)

\* switch (tool) of execute: the promise of the handler the tool name selects
route(name, in, api, remote) ==
    CASE name = "n8n/list_workflows" -> listWorkflows(in, api)
      [] name = "n8n/get_workflow" -> getWorkflow(in, api)
      [] name = "n8n/create_workflow" -> createWorkflow(in, api)
      [] name = "n8n/activate_workflow" -> activateWorkflow(in, api)
      [] name = "n8n/delete_workflow" -> deleteWorkflow(in, api)
      [] name = "n8n/create_research_workflow" -> createResearchWorkflow(in, api)
      [] name = "n8n/create_social_post_workflow" -> createSocialPostWorkflowTool(in, api)
      [] name = "n8n/generate_node" -> generateNode(in, api)
      [] name = "n8n/run_workflow" -> runWorkflow(in, api, remote)
      [] name = "n8n/get_execution_logs" -> getExecutionLogs(in, api)
      [] name = "n8n/fix_workflow_error" -> fixWorkflowError(in, api, remote)
      [] name = "n8n/list_templates" -> listTemplates(in)
      [] name = "n8n/apply_template" -> applyTemplate(in, api)
      [] name = "n8n/generate_workflow" -> generateWorkflow(in)
      [] name = "n8n/analyze_error" -> analyzeWorkflowError(in, api, remote)
      [] name = "n8n/build_expression" -> expressionBuilderHandler(in)
      [] name = "n8n/convert_workflow" -> convertWorkflowHandler(in)
      [] name \in InfrastructureCases ->
            IF WithoutPrefix(name) \in InfrastructureToolNames
            THEN infrastructureHandler(WithoutPrefix(name), in, api)
            ELSE ErrorOutcome("Infrastructure tool not found: ", <<>>)
      [] OTHER -> ErrorOutcome("Unknown tool: ", <<>>)

\* catch (error) of execute: a handler that rejects becomes an error result
caught(settled) ==
    IF settled.kind = "reject" THEN ErrorOutcome(settled.message, settled.calls)
    ELSE settled

\* an execute whose try has no catch: what the handler's promise does is what
\* the caller gets
executeWithoutCatch(name, in, api, remote) == route(name, in, api, remote)

\* execute: try { switch (tool) ... } catch (error) { ... }
execute(name, in, api, remote) == caught(route(name, in, api, remote))

\* the answers of the remote API to the successive calls of one handler
ApiAnswers == [1..MaxCalls -> {"ok", "fail"}]

OpsOf(calls) == [i \in 1..Len(calls) |-> calls[i].op]

\* the promise of execute settles, and the calls made and the result are
\* known; or it is still pending when the answers modelled run out
Settles(settled) ==
    /\ apiCalls' = OpsOf(settled.calls)
    /\ result' = IF settled.kind = "error" THEN ErrorResult(settled.message, "")
                 ELSE [kind |-> settled.kind]
    /\ pc' = IF settled.kind = "pending" THEN "pending" ELSE "return"

\* a client calls execute({tool, input}); the handler selected runs to its end
Execute ==
    /\ pc = "idle"
    /\ \E name \in ToolNames, api \in ApiAnswers, remote \in RemoteExecutions :
         \E in \in ToolInputs(name) :
            /\ tool' = name
            /\ input' = in
            /\ server' = [answers |-> api, execution |-> remote]
            /\ Settles(execute(name, in, api, remote))
    /\ UNCHANGED <<heap, instances, requirements, neededNodes, nodes, connections, workflow,
                   results, exception>>

NextExecute ==
    \/ Execute
    \/ Return

(***************************************************************************)
(* Workflow-as-Code converter (convertWorkflow and what it calls), applied *)
(* to the workflows the builders return.  A workflow on the wire has       *)
(* connections of kind "map" (connections.main is an object keyed by the   *)
(* source node's name, the builders' shape), "array" (connections.main is  *)
(* an array of arrays, the shape the converter's own parser makes) or      *)
(* "absent" (connections is {}).                                           *)
(***************************************************************************)
WireConnections(kind, entries) == [kind |-> kind, entries |-> entries]

\* the N8nWorkflow a template's generateWorkflow returns
WireWorkflow(wf) ==
    [name |-> wf.name, nodes |-> wf.nodes,
     connections |-> WireConnections("map", wf.connections), active |-> wf.active]

\* workflowData of the createWorkflow tool: one Start node and connections: {}
basicWorkflowData(name, activate) ==
    [name |-> name,
     nodes |-> <<[parameters |-> EmptyMap, name |-> "Start", type |-> START,
                  typeVersion |-> "1", position |-> <<250, 300>>]>>,
     connections |-> WireConnections("absent", <<>>), active |-> activate]

\* JSON.stringify leaves out the properties whose value is undefined
WithoutUndefined(parameters) ==
    [k \in {key \in DOMAIN parameters : parameters[key] # Undefined} |-> parameters[k]]

\* workflowToJSON: JSON.stringify(workflow, null, 2), a string
workflowToJSON(wf) ==
    [string |-> "json",
     text |-> [wf EXCEPT !.nodes = [i \in 1..Len(wf.nodes) |->
                  [wf.nodes[i] EXCEPT !.parameters = WithoutUndefined(@)]]]]

\* a workflow object handed to the converter as it is
WorkflowObject(wf) == [string |-> "", text |-> wf]

\* parseWorkflowInput: a string is parsed as JSON, an object is taken as it is
parseWorkflowInput(workflowInput) == workflowInput.text

\* countConnections: for (const outputConnections of connections.main) is a
\* TypeError when connections.main is an object, which is not iterable
countConnections(conns) ==
    CASE conns.kind = "absent" -> [threw |-> FALSE, count |-> 0]
      [] conns.kind = "array" ->
            [threw |-> FALSE,
             count |-> SumSeq([i \in 1..Len(conns.entries) |-> Len(conns.entries[i])])]
      [] OTHER -> [threw |-> TRUE, count |-> 0]

triggerNodeTypes ==
    {SCHEDULE, MANUAL, "n8n-nodes-base.httpTrigger", "n8n-nodes-base.webhook",
     "n8n-nodes-base.eventTrigger", "n8n-nodes-base.emailTrigger",
     "n8n-nodes-base.telegramTrigger", "n8n-nodes-base.githubTrigger",
     "n8n-nodes-base.surveymonkeyTrigger"}

\* extractWorkflowMetadata
extractWorkflowMetadata(wf) ==
    [threw |-> countConnections(wf.connections).threw,
     nodeCount |-> Len(wf.nodes),
     connectionCount |-> countConnections(wf.connections).count,
     triggerNodes |-> {wf.nodes[i].name : i \in {j \in 1..Len(wf.nodes) :
                            wf.nodes[j].type \in triggerNodeTypes}}]

ConversionFailed(message, targetFormat) ==
    [kind |-> "conversion_failed", message |-> message, targetFormat |-> targetFormat]

\* convertWorkflow for the 'json' target and for a target it does not have:
\* every throw inside becomes Error('Workflow conversion failed: ...')
convertWorkflow(workflowInput, targetFormat) ==
    LET wf == parseWorkflowInput(workflowInput)
        metadata == extractWorkflowMetadata(wf)
    IN  IF targetFormat # "json"
        THEN ConversionFailed("Unsupported target format", targetFormat)
        ELSE IF metadata.threw
        THEN ConversionFailed("connections.main is not iterable", targetFormat)
        ELSE [kind |-> "converted", convertedWorkflow |-> workflowToJSON(wf),
              metadata |-> metadata, targetFormat |-> targetFormat]

\* parameters objects given to the templates
ChannelLists == SeqsUpTo({"email", "slack"}, MaxChannels)
TemplateParameters(templateId) ==
    CASE templateId = "notification" ->
            {EmptyMap} \cup
            {[trigger |-> t, notificationChannels |-> c] :
                t \in {"schedule", "manual", "webhook"}, c \in ChannelLists}
      [] templateId = "social-media-monitoring" ->
            {EmptyMap} \cup {[platforms |-> p] : p \in SeqsUpTo({"twitter", "reddit"}, MaxChannels)}
      [] templateId = "data-processing" ->
            {EmptyMap} \cup
            {[sourceType |-> s, transformations |-> t] :
                s \in {"http", "googleSheets", "file"},
                t \in SeqsUpTo({"filter", "format", "merge"}, MaxChannels)}
      [] OTHER -> {EmptyMap, [method |-> "POST"]}

\* a caller runs workflowTemplates[templateId].generateWorkflow(params); a
\* TypeError raised inside reaches the caller
BuildTemplate ==
    /\ pc = "idle"
    /\ \E templateId \in TemplateIds :
         \E parameters \in TemplateParameters(templateId) :
            LET params == [name |-> "My flow", description |-> "", parameters |-> parameters]
                wf == workflowTemplates(templateId, params)
            IN  /\ tool' = templateId
                /\ input' = params
                /\ IF wf.threw
                   THEN /\ exception' = [message |-> "TypeError", arg |-> "name"]
                        /\ result' = [kind |-> "throw"]
                        /\ pc' = "return"
                        /\ UNCHANGED workflow
                   ELSE /\ workflow' = WireWorkflow(wf)
                        /\ pc' = "built"
                        /\ UNCHANGED <<exception, result>>
    /\ UNCHANGED <<server, heap, instances, requirements, neededNodes, nodes, connections,
                   results, apiCalls>>

\* the createWorkflow tool has put its workflowData together
BuildBasic ==
    /\ pc = "idle"
    /\ \E activate \in BOOLEAN : workflow' = basicWorkflowData("My flow", activate)
    /\ tool' = "createWorkflow"
    /\ pc' = "built"
    /\ UNCHANGED <<server, heap, instances, input, requirements, neededNodes, nodes,
                   connections, results, apiCalls, exception, result>>

\* convertWorkflow({workflow, targetFormat}) on the workflow built
ConvertWorkflow ==
    /\ pc = "built"
    /\ \E targetFormat \in {"json", "yaml"} :
          result' = convertWorkflow(WorkflowObject(workflow), targetFormat)
    /\ pc' = IF result'.kind = "converted" THEN "converted" ELSE "return"
    /\ UNCHANGED <<server, heap, instances, tool, input, requirements, neededNodes, nodes,
                   connections, workflow, results, apiCalls, exception>>

\* the JSON text goes back through parseWorkflowInput
ParseBack ==
    /\ pc = "converted"
    /\ result' = [kind |-> "parsed", parsed |-> parseWorkflowInput(result.convertedWorkflow),
                  metadata |-> result.metadata, targetFormat |-> result.targetFormat]
    /\ pc' = "return"
    /\ UNCHANGED <<server, heap, instances, tool, input, requirements, neededNodes, nodes,
                   connections, workflow, results, apiCalls, exception>>

NextConvert ==
    \/ BuildTemplate
    \/ BuildBasic
    \/ ConvertWorkflow
    \/ ParseBack
    \/ Return

(***************************************************************************)
(* createSocialPostWorkflow (workflow-development): the workflowData it    *)
(* puts together and sends to the remote API                               *)
(***************************************************************************)
SocialPlatforms == {"twitter", "linkedin", "mastodon"}

\* `Post to ${platform.charAt(0).toUpperCase() + platform.slice(1)}`
platformNodeName(platform) ==
    CASE platform = "twitter" -> "Post to Twitter"
      [] platform = "linkedin" -> "Post to Linkedin"
      [] OTHER -> "Post to Mastodon"

\* switch (platform.toLowerCase()): the node type; other platforms get a
\* generic HTTP node
platformNodeType(platform) ==
    CASE platform = "twitter" -> TWITTER
      [] platform = "linkedin" -> "n8n-nodes-base.linkedIn"
      [] OTHER -> HTTP

platformNode(platform, xPosition) ==
    [name |-> platformNodeName(platform), position |-> <<xPosition, 300>>,
     typeVersion |-> "1", type |-> platformNodeType(platform),
     parameters |-> IF platformNodeType(platform) = HTTP
                    THEN [url |-> "https://api.example.com/post", method |-> "POST"]
                    ELSE [text |-> "={{ $json.postContent }}", operation |-> "create"]]

\* for (const platform of platforms): the node is pushed, connected from
\* lastNodeName, and becomes lastNodeName
RECURSIVE socialPostPlatforms(_, _, _)
socialPostPlatforms(platforms, index, acc) ==
    IF index > Len(platforms) THEN acc
    ELSE LET node == platformNode(platforms[index], acc.xPosition)
         IN  socialPostPlatforms(platforms, index + 1,
                [nodes |-> Append(acc.nodes, node),
                 connections |-> PushConnection(acc.connections, acc.lastNodeName,
                                    Connection(node.name, 0)),
                 lastNodeName |-> node.name,
                 xPosition |-> acc.xPosition + 200])

\* workflowData when the loop over the platforms is done
socialPostWorkflowData(name, platforms, content_source) ==
    LET startNode == [parameters |-> EmptyMap, name |-> "Start", type |-> START,
                      typeVersion |-> "1", position |-> <<250, 300>>]
        contentSourceNode ==
            [parameters |-> IF content_source = "manual"
                            THEN [values |-> "{string:[postContent,postTitle,postImage]}"]
                            ELSE EmptyMap,
             name |-> "Content Source",
             type |-> IF content_source = "rss" THEN "n8n-nodes-base.rssFeedRead" ELSE SETNODE,
             typeVersion |-> "1", position |-> <<450, 300>>]
        acc0 == [nodes |-> <<startNode, contentSourceNode>>,
                 connections |-> PushConnection(NoConnections, "Start",
                                    Connection("Content Source", 0)),
                 lastNodeName |-> "Content Source", xPosition |-> 650]
        acc == socialPostPlatforms(platforms, 1, acc0)
    IN  [name |-> name, nodes |-> acc.nodes, connections |-> acc.connections,
         active |-> FALSE]

\* input of createSocialPostWorkflow; platforms "missing" takes the default []
SocialPostInputs ==
    [name : {"", "My flow"},
     platforms : {[given |-> FALSE, list |-> <<>>]} \cup
                 {[given |-> TRUE, list |-> l] : l \in SeqsUpTo(SocialPlatforms, MaxChannels)},
     content_source : {"manual", "rss"}]

InvokeSocialPost ==
    /\ pc = "idle"
    /\ \E in \in SocialPostInputs : input' = in
    /\ tool' = "createSocialPostWorkflow"
    /\ pc' = "social_start"
    /\ UNCHANGED <<server, heap, instances, requirements, neededNodes, nodes, connections,
                   workflow, results, apiCalls, exception, result>>

\* the input checks and the construction of workflowData
SocialPostBuild ==
    /\ pc = "social_start"
    /\ IF input.name = ""
       THEN /\ result' = ErrorResult("Workflow name is required", "")
            /\ pc' = "return"
            /\ UNCHANGED workflow
       ELSE IF Len(input.platforms.list) = 0
       THEN /\ result' = ErrorResult("At least one social media platform is required", "")
            /\ pc' = "return"
            /\ UNCHANGED workflow
       ELSE /\ workflow' = socialPostWorkflowData(input.name, input.platforms.list,
                                                  input.content_source)
            /\ pc' = "social_create"
            /\ UNCHANGED result
    /\ UNCHANGED <<server, heap, instances, tool, input, requirements, neededNodes, nodes,
                   connections, results, apiCalls, exception>>

\* workflow = await n8nApi.createWorkflow(workflowData), which resolves or
\* rejects; the catch block makes the rejection an error result
SocialPostCreate ==
    /\ pc = "social_create"
    /\ apiCalls' = Append(apiCalls, "createWorkflow")
    /\ \/ result' = [kind |-> "data", workflow |-> workflow]
       \/ result' = ErrorResult("Failed to create social post workflow: ", "Request failed")
    /\ pc' = "return"
    /\ UNCHANGED <<server, heap, instances, tool, input, requirements, neededNodes, nodes,
                   connections, workflow, results, exception>>

NextSocialPost ==
    \/ InvokeSocialPost
    \/ SocialPostBuild
    \/ SocialPostCreate
    \/ Return

(***************************************************************************)
(* deployWorkflow (common-infrastructure), step by step                    *)
(***************************************************************************)
\* getEnvironments()
availableEnvironments == {"development", "staging", "production"}

\* environments "given = FALSE" is a missing property
DeployInputs ==
    [workflowId : {"", "wf1"},
     environments : {[given |-> FALSE, list |-> <<>>], [given |-> TRUE, list |-> <<>>],
                     [given |-> TRUE, list |-> <<"staging">>],
                     [given |-> TRUE, list |-> <<"staging", "production">>],
                     [given |-> TRUE, list |-> <<"qa">>]},
     activate : BOOLEAN, force : BOOLEAN]

InvokeDeploy ==
    /\ pc = "idle"
    /\ \E in \in DeployInputs : input' = in
    /\ tool' = "deployWorkflow"
    /\ pc' = "deploy_start"
    /\ UNCHANGED <<server, heap, instances, requirements, neededNodes, nodes, connections,
                   workflow, results, apiCalls, exception, result>>

\* the checks of workflowId and of environments
DeployStart ==
    /\ pc = "deploy_start"
    /\ LET invalidEnvironments ==
               {i \in 1..Len(input.environments.list) :
                    input.environments.list[i] \notin availableEnvironments}
       IN  IF input.workflowId = ""
           THEN /\ result' = ErrorResult("Workflow ID is required for deployment", "")
                /\ pc' = "return"
           ELSE IF ~input.environments.given \/ Len(input.environments.list) = 0
           THEN /\ result' = ErrorResult("At least one target environment is required", "")
                /\ pc' = "return"
           ELSE IF invalidEnvironments # {} /\ ~input.force
           THEN /\ result' = ErrorResult("Invalid environment(s)", "")
                /\ pc' = "return"
           ELSE /\ pc' = "deploy_get"
                /\ UNCHANGED result
    /\ UNCHANGED <<server, heap, instances, tool, input, requirements, neededNodes, nodes,
                   connections, workflow, results, apiCalls, exception>>

\* workflow = await n8nApi.getWorkflow(workflowId) in its own try
DeployGetWorkflow ==
    /\ pc = "deploy_get"
    /\ apiCalls' = Append(apiCalls, "getWorkflow")
    /\ \/ /\ result' = ErrorResult("Failed to retrieve workflow", input.workflowId)
          /\ pc' = "return"
          /\ UNCHANGED workflow
       \/ /\ \E wf \in RemoteWorkflows : workflow' = wf
          /\ pc' = IF input.force THEN "deploy_run" ELSE "deploy_validate"
          /\ UNCHANGED result
    /\ UNCHANGED <<server, heap, instances, tool, input, requirements, neededNodes, nodes,
                   connections, results, exception>>

\* validationResult of validateWorkflow({workflowId}) for the workflow wf that
\* its own getWorkflow returns: all rules are applied, and issues come back
\* in a body
validationResult(wf) ==
    LET ruleResults == applyRules(<<"all">>, wf)
    IN  IF collectThrows(ruleResults)
        THEN [kind |-> "error", ruleResults |-> ruleResults]
        ELSE [kind |-> "body", ruleResults |-> ruleResults]

\* if (validationResult.error) return { error: 'Validation failed, deployment aborted' }
abortDeployment(validation) == validation.kind = "error"

\* if (!force) { validationResult = await validateWorkflow({ workflowId }); ... }:
\* validateWorkflow fetches the workflow again, which may fail
DeployValidate ==
    /\ pc = "deploy_validate"
    /\ apiCalls' = Append(apiCalls, "getWorkflow")
    /\ \/ /\ result' = ErrorResult("Validation failed, deployment aborted",
                                   "Failed to retrieve workflow")
          /\ pc' = "return"
          /\ UNCHANGED results
       \/ /\ results' = validationResult(workflow).ruleResults
          /\ IF abortDeployment(validationResult(workflow))
             THEN /\ result' = ErrorResult("Validation failed, deployment aborted", "")
                  /\ pc' = "return"
             ELSE /\ pc' = "deploy_run"
                  /\ UNCHANGED result
    /\ UNCHANGED <<server, heap, instances, tool, input, requirements, neededNodes, nodes,
                   connections, workflow, exception>>

\* deploymentResults = environments.map(...); return { body: { message, deployments } }
DeployRun ==
    /\ pc = "deploy_run"
    /\ result' = [kind |-> "body",
                  deployments |-> [i \in 1..Len(input.environments.list) |->
                      [environment |-> input.environments.list[i], success |-> TRUE,
                       activationStatus |-> input.activate]]]
    /\ pc' = "return"
    /\ UNCHANGED <<server, heap, instances, tool, input, requirements, neededNodes, nodes,
                   connections, workflow, results, apiCalls, exception>>

NextDeploy ==
    \/ InvokeDeploy
    \/ DeployStart
    \/ DeployGetWorkflow
    \/ DeployValidate
    \/ DeployRun
    \/ Return

Next == NextGenerate \/ NextValidate \/ NextApply \/ NextCreateNode \/ NextExecute
        \/ NextConvert \/ NextSocialPost \/ NextDeploy

Spec == Init /\ [][Next]_vars
SpecGenerate == Init /\ [][NextGenerate]_vars
SpecValidate == Init /\ [][NextValidate]_vars
SpecApply == Init /\ [][NextApply]_vars
SpecCreateNode == Init /\ [][NextCreateNode]_vars
SpecExecute == Init /\ [][NextExecute]_vars
SpecConvert == Init /\ [][NextConvert]_vars
SpecSocialPost == Init /\ [][NextSocialPost]_vars
SpecDeploy == Init /\ [][NextDeploy]_vars

(***************************************************************************)
(* Properties                                                              *)
(***************************************************************************)
TypesOf(ns) == [i \in 1..Len(ns) |-> ns[i].type]
InCatalog(type) == type \in CatalogTypes
TemplateSelected == requirements.templateId \in TemplateIds

\* createNodeStructure has returned and its node list is in nodes
StructureBuilt == tool = "generateWorkflow" /\ pc = "gen_connect"
\* createConnections has returned and its map is in connections
ConnectionsBuilt == tool = "generateWorkflow" /\ pc = "gen_validate"
StructureThrew == pc = "gen_catch" /\ exception.arg = "name"

\* C1 as stated: whatever list createNodeStructure is given, the nodes it returns
\* are one per identifier of the list that the catalog has, in input order, and it
\* raises no exception.
C1_AsStated ==
    /\ ~StructureThrew
    /\ StructureBuilt => TypesOf(nodes) = SelectSeq(neededNodes, InCatalog)

NoBranchNode(ns) == \A i \in 1..Len(ns) : ns[i].type # IFNODE
IsTargetOf(conns, sourceName, conn) ==
    \E k \in 1..Len(Targets(conns, sourceName)) : Targets(conns, sourceName)[k] = conn

\* C2: for a node list of length len >= 2 without IF node, createConnections returns
\* a map with exactly len-1 target entries in total, node i connected to node i+1 at
\* index 0.
C2_SequentialChain ==
    (ConnectionsBuilt /\ Len(nodes) >= 2 /\ NoBranchNode(nodes)) =>
        /\ CountTargets(connections) = Len(nodes) - 1
        /\ \A i \in 1..(Len(nodes) - 1) :
              IsTargetOf(connections, nodes[i].name, Connection(nodes[i + 1].name, 0))

\* C3: an IF node followed by at least two nodes has exactly two outgoing
\* connections, to the next node and to the one after it, each with index 0.
C3_BranchTwoTargets ==
    ConnectionsBuilt =>
        \A i \in 1..Len(nodes) :
            (nodes[i].type = IFNODE /\ Len(nodes) - i >= 2) =>
                Targets(connections, nodes[i].name) =
                    <<Connection(nodes[i + 1].name, 0), Connection(nodes[i + 2].name, 0)>>

\* C4: an IF node followed by exactly one node has exactly one outgoing connection,
\* to that node at index 0; an IF node that is last has none; createConnections
\* raises no error.
C4_BranchFewerThanTwo ==
    /\ ConnectionsBuilt =>
        \A i \in 1..Len(nodes) :
            nodes[i].type = IFNODE =>
                /\ (i = Len(nodes) - 1) =>
                      Targets(connections, nodes[i].name) =
                          <<Connection(nodes[i + 1].name, 0)>>
                /\ (i = Len(nodes)) => Targets(connections, nodes[i].name) = <<>>
    /\ (pc = "gen_validate" => exception = NoError)

\* createConnections has wired a list whose IF node is followed by exactly one node
C4_Witness ==
    /\ ConnectionsBuilt
    /\ Len(nodes) >= 3
    /\ nodes[Len(nodes) - 1].type = IFNODE
    /\ HasSource(connections, nodes[Len(nodes) - 1].name)

(***************************************************************************)
(* Properties of the validators                                            *)
(***************************************************************************)
\* the validateWorkflow tool has returned its report
Reported == tool = "validateWorkflow" /\ pc = "return" /\ result.kind = "body"
\* the generator's validateWorkflow has run on the workflow document
GraphChecked == tool = "validateWorkflow(workflow)" /\ pc = "return"

RuleApplied(rule) == \E i \in 1..Len(results) : results[i].rule = rule
ReportsIssue(rule, text) ==
    \E k \in 1..Len(result.issues) :
        result.issues[k].rule = rule /\ result.issues[k].text = text
ReportsText(text) == \E k \in 1..Len(result.issues) : result.issues[k].text = text

HasTriggerNode(wf) == \E i \in 1..Len(wf.nodes) : IsTriggerType(wf.nodes[i].type)
\* the target entries of wf that name no node of wf, in iteration order
DanglingEntries(wf) ==
    SelectSeq(AllTargets(wf.connections), LAMBDA c : c.node \notin NodeNames(wf.nodes))

TriggerIssueText == "Workflow must have at least one trigger node"
NodesIssueText == "Workflow must have at least one node"
NameIssueText == "Workflow name is too short or missing"
DanglingText == "Connection points to non-existent node: "

RequestedTableRules ==
    IF \E i \in 1..Len(requestedRules) : requestedRules[i] = "all" THEN RuleTable
    ELSE {requestedRules[i] : i \in 1..Len(requestedRules)} \cap RuleTable

Occurrences(ns, name) == Cardinality({i \in 1..Len(ns) : ns[i].name = name})
DuplicateIssues(issues, name) ==
    Cardinality({k \in 1..Len(issues) : issues[k] = Issue("Duplicate node name: ", name)})

\* C8: the naming rule emits one duplicate-name issue per occurrence of a display
\* name beyond the first: a name that occurs k times gets k-1 issues citing it, a
\* name that occurs once gets none, and no other name is cited.
C8_DuplicateNames ==
    (tool = "validateWorkflow" /\ pc \in {"val_collect", "val_catch", "return"}) =>
        \A i \in 1..Len(results) :
            results[i].rule = "naming" =>
                /\ \A name \in NodeNames(workflow.nodes) :
                      DuplicateIssues(results[i].issues, name) =
                          Occurrences(workflow.nodes, name) - 1
                /\ \A k \in 1..Len(results[i].issues) :
                      results[i].issues[k].text = "Duplicate node name: " =>
                          results[i].issues[k].arg \in NodeNames(workflow.nodes)

\* the naming rule has run on a node list in which one name occurs three times
C8_Witness ==
    /\ tool = "validateWorkflow" /\ pc = "val_collect"
    /\ RuleApplied("naming")
    /\ \E name \in NodeNames(workflow.nodes) : Occurrences(workflow.nodes, name) = 3

\* C9: the pass flag is true exactly when the issue list is empty, and rule names
\* that are not defined are ignored without error: the only errors are a missing
\* workflow id and a failed retrieval, and a request that names only undefined
\* rules, or none, passes with an empty issue list.
C9_PassIffNoIssues ==
    /\ Reported => (result.validationPassed <=> result.issues = <<>>)
    /\ (tool = "validateWorkflow" /\ pc = "return" /\ result.kind = "error") =>
          result.message \in {"Workflow ID is required for validation",
                              "Failed to retrieve workflow"}
    /\ (Reported /\ \A i \in 1..Len(requestedRules) :
                        requestedRules[i] \notin RuleTable \cup {"all"}) =>
          result.validationPassed /\ result.issues = <<>>

(***************************************************************************)
(* Properties of applyTemplate                                             *)
(***************************************************************************)
NotFoundError == ErrorResult("Template not found", input.template_id)
UnknownTemplate == tool = "applyTemplate" /\ input.template_id \notin ApplyTemplateIds
GraphBuilt == workflow # NoWorkflow
CreateCalled == \E i \in 1..Len(apiCalls) : apiCalls[i] = "createWorkflow"

\* C10 as stated: applying a template whose identifier is outside the template
\* catalog returns the not-found error, builds no graph and does not call the remote
\* createWorkflow.
C10_AsStated ==
    UnknownTemplate =>
        /\ ~GraphBuilt /\ ~CreateCalled
        /\ pc = "return" => result = NotFoundError

\* C10 amended: applying a template whose identifier is outside the template catalog
\* returns an error, builds no graph and does not call the remote createWorkflow;
\* the error is the not-found error when the identifier and the workflow name are
\* both non-empty, and the missing-input error of the empty one otherwise.
C10_UnknownTemplate ==
    UnknownTemplate =>
        /\ ~GraphBuilt /\ ~CreateCalled
        /\ pc = "return" =>
              result = IF input.template_id = ""
                       THEN ErrorResult("Template ID is required", "")
                       ELSE IF input.name = ""
                       THEN ErrorResult("Workflow name is required", "")
                       ELSE NotFoundError

\* applyTemplate has answered a named request for a template it does not have
C10_Witness ==
    /\ UnknownTemplate /\ pc = "return"
    /\ input.template_id = "social-media-monitoring" /\ input.name = "My flow"
    /\ result = NotFoundError

(***************************************************************************)
(* Properties of createNode                                                *)
(***************************************************************************)
DefaultsOf(e) == objectDefinition(e.type).defaultParameters

\* C11: createNode resolves parameters by a top-level merge of the overrides over
\* the defaults: the keys are those of both, the override value wins for every key
\* the overrides have, a key only the defaults have keeps its default value, and a
\* nested object given as override replaces the default nested object wholesale
\* (the parameter is the override's object, and no field of the default object is
\* merged into it).
C11_TopLevelMerge ==
    \A i \in 1..Len(instances) :
        LET d == DefaultsOf(instances[i])
            c == instances[i].customParameters
            p == instances[i].node.parameters
        IN  /\ DOMAIN p = DOMAIN d \cup DOMAIN c
            /\ \A k \in DOMAIN c : p[k] = c[k]
            /\ \A k \in DOMAIN d \ DOMAIN c : p[k] = d[k]
            /\ \A k \in DOMAIN c \cap DOMAIN d :
                  (c[k].ref # 0 /\ d[k].ref # 0) =>
                      /\ p[k].ref \notin CatalogRefs
                      /\ DOMAIN heap[p[k].ref] \cap DOMAIN CatalogHeap[d[k].ref] = {}

\* a Set node has been built with its nested default "values" overridden by an
\* object, a key the defaults do not have added, and the default "options" kept
C11_Witness ==
    \E i \in 1..Len(instances) :
        /\ instances[i].type = SETNODE
        /\ "values" \in DOMAIN instances[i].customParameters
        /\ instances[i].customParameters["values"].ref # 0
        /\ "url" \in DOMAIN instances[i].node.parameters
        /\ instances[i].node.parameters["options"] = DefaultsOf(instances[i])["options"]

NestedRefs(e) ==
    {e.node.parameters[k].ref : k \in DOMAIN e.node.parameters} \ {0}

\* C12: node instantiation never mutates the catalog, and the parameters of a built
\* node share no nested object with the catalog's defaultParameters or with a node
\* of another graph, so that changing a nested parameter of a built graph leaves the
\* catalog as the module defined it.
C12_NoAliasing ==
    /\ \A r \in CatalogRefs : heap[r] = CatalogHeap[r]
    /\ \A i \in 1..Len(instances) : NestedRefs(instances[i]) \cap CatalogRefs = {}
    /\ \A i, j \in 1..Len(instances) :
          instances[i].graph # instances[j].graph =>
              NestedRefs(instances[i]) \cap NestedRefs(instances[j]) = {}

(***************************************************************************)
(* The dispatcher and the handlers' error contract                         *)
(***************************************************************************)
Executed == pc = "return" /\ tool \in ToolNames

\* the result carries a success payload: data of an ExecuteResult or body of
\* an MCPResponse
HasPayload == result.kind \in {"data", "body"}
HasError == result.kind = "error"

RequiredMissing ==
    \/ ~input.defined /\ Required(tool) # {}
    \/ input.defined /\ \E field \in Required(tool) : input.fields[field] \in {Missing, Empty}

\* C14: for every tool, when an input that the manifest marks as required is
\* missing or empty, the tool returns an error result and has made no call to
\* the remote API client before returning.
C14_RequiredChecked ==
    (Executed /\ RequiredMissing) => (HasError /\ apiCalls = <<>>)

\* the calls of the running handler that the remote API failed
FailedCalls == {i \in 1..Len(apiCalls) : server.answers[i] = "fail"}

\* the best-effort lookup of deleteWorkflow
BestEffortLookup(i) == tool = "n8n/delete_workflow" /\ apiCalls[i] = "getWorkflow"

\* C15: when a call to the remote API client fails inside a tool handler, the
\* handler never re-issues that call and, except for the best-effort name
\* lookup of deleteWorkflow, its result is an error object rather than a
\* success payload.
C15_FailureSurfaces ==
    Executed =>
        /\ \A i \in FailedCalls : \A j \in 1..Len(apiCalls) : j > i => apiCalls[j] # apiCalls[i]
        /\ (\E i \in FailedCalls : ~BestEffortLookup(i)) => HasError

(***************************************************************************)
(* The converter and the templates called directly                         *)
(***************************************************************************)
\* convertWorkflow has been called on the workflow built, and has returned or thrown
ConvertCalled == pc \in {"converted", "return"} /\ result.kind \in {"converted", "conversion_failed", "parsed"}
JsonRoundTripDone == pc = "return" /\ ConvertCalled /\ result.targetFormat = "json"

\* C16: for every workflow produced by the builders, converting it to the
\* 'json' target format with convertWorkflow and parsing the output back
\* yields a workflow equal to the original (same nodes, same connections,
\* same active flag).
C16_JsonRoundTrip ==
    JsonRoundTripDone =>
        /\ result.kind = "parsed"
        /\ result.parsed.nodes = workflow.nodes
        /\ result.parsed.connections = workflow.connections
        /\ result.parsed.active = workflow.active

\* C17: for a graph in the wire shape the builders produce (connections.main
\* is a map from source node name to {main: [targets]}), convertWorkflow
\* succeeds and its metadata reports nodeCount equal to the number of nodes
\* and connectionCount equal to the total number of target entries in the
\* connections map.
C17_MetadataCounts ==
    (ConvertCalled /\ result.targetFormat = "json" /\ workflow.connections.kind = "map") =>
        /\ result.kind # "conversion_failed"
        /\ result.metadata.nodeCount = Len(workflow.nodes)
        /\ result.metadata.connectionCount = CountTargets(workflow.connections.entries)

\* C18: the notification template's generateWorkflow never throws: for every
\* value of parameters.trigger, including values other than 'schedule' and
\* 'manual', it returns a graph or a structured error value.
C18_NotificationNeverThrows ==
    (tool = "notification" /\ pc \in {"built", "return"}) => result.kind # "throw"

(***************************************************************************)
(* The multi-platform social-post workflow                                 *)
(***************************************************************************)
SocialPostBuilt ==
    tool = "createSocialPostWorkflow" /\ pc \in {"social_create", "return"} /\ workflow # NoWorkflow

\* the names of the platform nodes: every node after Start and Content Source
PlatformNodeNames == {workflow.nodes[i].name : i \in 3..Len(workflow.nodes)}

IsConnected(conns, sourceName, targetName) ==
    \E k \in 1..Len(Targets(conns, sourceName)) : Targets(conns, sourceName)[k].node = targetName

\* C19: in the multi-platform social-post workflow the wiring is a fan-out:
\* for every list of platforms, each platform node is a direct connection
\* target of the single content-source node, and no platform node is the
\* source of a connection to another platform node.
C19_FanOut ==
    SocialPostBuilt =>
        /\ \A p \in PlatformNodeNames : IsConnected(workflow.connections, "Content Source", p)
        /\ \A p, q \in PlatformNodeNames : ~IsConnected(workflow.connections, p, q)

(***************************************************************************)
(* Deployment is gated by validation                                       *)
(***************************************************************************)
Deployed == tool = "deployWorkflow" /\ pc = "return"
DeploymentsReturned == result.kind = "body" /\ Len(result.deployments) > 0
ValidationRan == results # <<>>
RuleFailed == \E i \in 1..Len(results) : ~results[i].pass

\* C20: with force=false, deployWorkflow returns deployment results only if
\* validation of the workflow reported no issues; when any validation rule
\* fails it returns the 'Validation failed, deployment aborted' error and
\* produces no deployments.
C20_ValidationGatesDeploy ==
    (Deployed /\ ~input.force) =>
        /\ DeploymentsReturned => (ValidationRan /\ ~RuleFailed /\ collectIssues(results) = <<>>)
        /\ (ValidationRan /\ RuleFailed) =>
               (result.kind = "error" /\ result.message = "Validation failed, deployment aborted")

(***************************************************************************)
(* The workflow handlers and the remote API                                *)
(***************************************************************************)
\* deleteWorkflow has run with a non-empty id
DeleteRan ==
    /\ Executed
    /\ tool = "n8n/delete_workflow"
    /\ input.defined
    /\ Truthy(input, "id")

\* C21: deleteWorkflow with a non-empty id calls the remote delete operation
\* exactly once, after the name lookup and whether or not that lookup
\* succeeded; a failed lookup alone never produces an error result, and a
\* failed delete always produces an error result.
C21_DeleteOnceAfterLookup ==
    DeleteRan =>
        /\ apiCalls = <<"getWorkflow", "deleteWorkflow">>
        /\ server.answers[2] = "ok" => ~HasError
        /\ server.answers[2] = "fail" => HasError

\* C21 witness: the lookup has failed, the delete has succeeded and the
\* handler has returned its data
C21_Witness ==
    /\ DeleteRan
    /\ server.answers[1] = "fail"
    /\ server.answers[2] = "ok"
    /\ apiCalls = <<"getWorkflow", "deleteWorkflow">>
    /\ result.kind = "data"

\* runWorkflow has run
RunRan == Executed /\ tool = "n8n/run_workflow"

\* C22: runWorkflow never calls the remote executeWorkflow operation unless
\* the preceding getWorkflow existence check for the same id succeeded; when
\* the check fails the result is an error and no execution is started.
C22_ExecuteOnlyIfFound ==
    RunRan =>
        /\ \A i \in 1..Len(apiCalls) :
              apiCalls[i] = "executeWorkflow" =>
                  /\ i = 2
                  /\ apiCalls[1] = "getWorkflow"
                  /\ server.answers[1] = "ok"
        /\ (apiCalls # <<>> /\ server.answers[1] = "fail") =>
              /\ HasError
              /\ apiCalls = <<"getWorkflow">>

\* C22 witness: the existence check has failed and runWorkflow has returned
\* an error without starting an execution
C22_Witness ==
    /\ RunRan
    /\ input.defined
    /\ Truthy(input, "id")
    /\ server.answers[1] = "fail"
    /\ apiCalls = <<"getWorkflow">>
    /\ HasError

\* the execution that executeWorkflow has returned to runWorkflow
ExecutionReturned ==
    /\ RunRan
    /\ apiCalls = <<"getWorkflow", "executeWorkflow">>
    /\ server.answers[2] = "ok"

\* C23: runWorkflow returns the success payload 'Workflow executed
\* successfully' only when the execution's status is not a failure status:
\* for every execution whose status is 'failed', 'error' or 'crashed' the
\* result is an error object.
C23_FailureStatusIsError ==
    (ExecutionReturned /\ server.execution.status \in {"failed", "error", "crashed"}) =>
        HasError

\* parseErrorLogs has been called by analyzeWorkflowError, which has returned
\* or is still waiting for it
AnalyzeRan == tool = "n8n/analyze_error" /\ pc \in {"return", "pending"}

CountCalls(op) == Cardinality({i \in 1..Len(apiCalls) : apiCalls[i] = op})

\* C25: analyzeWorkflowError terminates for every input and every remote API
\* response: parseErrorLogs recurses at most once, so one invocation makes at
\* most one getExecutions call and at most one getExecution call (including
\* when the failed execution found has a missing or empty id).
C25_AnalyzeTerminates ==
    AnalyzeRan =>
        /\ pc = "return"
        /\ CountCalls("getExecutions") <= 1
        /\ CountCalls("getExecution") <= 1

\* the names of the tools declared in manifest.tools
ManifestTools == DispatchedTools \cup InfrastructureCases

\* execute has answered that it has no handler for the tool
NotRouted ==
    HasError /\ result.message \in {"Unknown tool: ", "Infrastructure tool not found: "}

\* C24: for every tool name declared in the server manifest, execute routes
\* the call to that tool's handler: a declared tool is never answered with
\* 'Unknown tool' or 'Infrastructure tool not found'; only undeclared names
\* get the 'Unknown tool' error.
C24_DeclaredToolsRouted ==
    Executed =>
        /\ tool \in ManifestTools => ~NotRouted
        /\ (HasError /\ result.message = "Unknown tool: ") => tool \notin ManifestTools

(***************************************************************************)
(* The workflow generateWorkflow returns                                   *)
(***************************************************************************)
GenerateReturned == tool = "generateWorkflow" /\ pc = "return"
\* generateWorkflow has returned { data: { workflow, ... } }
WorkflowReturned == GenerateReturned /\ result.kind = "data"

Distinct(seq) == \A i, j \in 1..Len(seq) : seq[i] = seq[j] => i = j

\* C26: whenever generateWorkflow returns a success payload, the returned
\* workflow has a non-empty name, at least one node, at least one trigger or
\* start node, and every connection target names a node of the workflow;
\* otherwise the result is an error object.
C26_ReturnedWorkflowValid ==
    GenerateReturned =>
        IF result.kind = "data"
        THEN /\ result.workflow.name # ""
             /\ Len(result.workflow.nodes) >= 1
             /\ \E i \in 1..Len(result.workflow.nodes) :
                   IsTriggerType(result.workflow.nodes[i].type)
             /\ \A k \in 1..Len(AllTargets(result.workflow.connections)) :
                   AllTargets(result.workflow.connections)[k].node
                       \in NodeNames(result.workflow.nodes)
        ELSE result.kind = "error"

\* C26 witness: a workflow with a branch node and its two targets has passed
\* the validation and has been returned
C26_Witness ==
    /\ WorkflowReturned
    /\ Len(result.workflow.nodes) >= 4
    /\ \E i \in 1..Len(result.workflow.nodes) : result.workflow.nodes[i].type = IFNODE
    /\ CountTargets(result.workflow.connections) >= 3

\* C27: every workflow returned by generateWorkflow, for every description
\* and every requiredNodes list (including lists with repeated entries), has
\* pairwise distinct node display names and pairwise distinct node ids.
C27_DistinctNamesAndIds ==
    WorkflowReturned =>
        /\ Distinct([i \in 1..Len(result.workflow.nodes) |-> result.workflow.nodes[i].name])
        /\ Distinct([i \in 1..Len(result.workflow.nodes) |-> result.workflow.nodes[i].id])

\* C27 witness: requiredNodes names the same type twice and the workflow
\* returned holds one node of that type
C27_Witness ==
    /\ WorkflowReturned
    /\ Len(input.requiredNodes) = 2
    /\ input.requiredNodes[1] = input.requiredNodes[2]
    /\ \E i \in 1..Len(result.workflow.nodes) :
          result.workflow.nodes[i].type = input.requiredNodes[1]

\* C28: in every workflow returned by generateWorkflow, the connections are
\* exactly the sequential wiring that createConnections computes over the
\* returned node list; this includes the case where a template supplied the
\* nodes, whose own connections (for example the notification template's
\* fan-out) are not used.
C28_ConnectionsRecomputed ==
    WorkflowReturned =>
        result.workflow.connections = createConnections(result.workflow.nodes)

\* C28 witness: the notification template has supplied a Set node and two
\* channel nodes, and the workflow returned chains them instead of fanning out
C28_Witness ==
    /\ WorkflowReturned
    /\ requirements.templateId = "notification"
    /\ Len(result.workflow.nodes) = 4
    /\ result.workflow.connections #
          workflowTemplates("notification", templateParams(requirements)).connections
    /\ Len(Targets(result.workflow.connections, result.workflow.nodes[2].name)) = 1

\* the branch nodes of a node list that have at least two following nodes
BranchesWithTwoTargets(ns) == {i \in 1..Len(ns) : ns[i].type = IFNODE /\ Len(ns) - i >= 2}

\* C29: after createConnections wires a branch (IF) node that has at least
\* two following nodes, the node immediately after the branch node (the
\* first, true-branch target) is never the source of any connection, while
\* wiring resumes from the second target, which is connected to its own
\* successor when one exists.
C29_WiringResumesAtSecondTarget ==
    ConnectionsBuilt =>
        \A i \in BranchesWithTwoTargets(nodes) :
            /\ ~HasSource(connections, nodes[i + 1].name)
            /\ i + 3 <= Len(nodes) =>
                  IsTargetOf(connections, nodes[i + 2].name, Connection(nodes[i + 3].name, 0))

\* a connection of the map whose target is its own source
SelfConnected(conns) ==
    \E i \in 1..Len(conns) : \E k \in 1..Len(conns[i].main) : conns[i].main[k].node = conns[i].source

\* C30: no graph builder (research workflow template, social-post workflow,
\* the generator's social-media, data-processing and notification templates)
\* produces a connection whose target name equals its own source name, for
\* every list of sources, platforms, transformations or channels, including
\* lists with repeated entries.
C30_NoSelfConnection ==
    SocialPostBuilt => ~SelfConnected(workflow.connections)

====
